---- MODULE Spec2Model ----
(***************************************************************************)
(* Tiered data resolution of hackathon-agents-starter:                     *)
(*   lib/data-access.ts         loadAgentData                              *)
(*   lib/github-data-access.ts  fetchFromGitHubRaw, fetchFromGitHubAPI,    *)
(*                              loadAgentDataFromGitHub                    *)
(* One resolution is modelled as a process whose steps are the segments    *)
(* of loadAgentData between two awaits; the local loop is split per        *)
(* candidate path so that every file-system call is observable.            *)
(*                                                                         *)
(* Representation.                                                         *)
(*   JavaScript values  : records [t, s, n] (type tag, text, length).      *)
(*   source, URLs, paths: strings, template literals are \o.               *)
(*   error texts        : sequences of string parts, a template literal    *)
(*                        `a${x}b` is <<"a", x, "b">>, so that "the text    *)
(*                        mentions x" can be evaluated.                    *)
(*   optional fields    : absent from the record (error?, githubUrls?).    *)
(***************************************************************************)
EXTENDS Naturals, Sequences, FiniteSets, TLC

VARIABLES
  request,    \* the arguments of loadAgentData
  fs,         \* what existsSync / readFileSync find at each candidate path
  pc,         \* where loadAgentData stands: start, local, fetchRaw, fetchApi,
              \* done (returned), thrown (left by an exception)
  idx,        \* index of the next candidate of the loop over possiblePaths
  rawResp,    \* the answer the raw fetch received
  rawResult,  \* rawResult of loadAgentDataFromGitHub
  apiResp,    \* the answer the API fetch received
  apiResult,  \* apiResult of loadAgentDataFromGitHub
  result,     \* the DataAccessResult returned
  trace,      \* the calls made so far, in order (call instrumentation)
  tier,       \* idle / running / failed / succeeded for each tier
  apiPc,      \* a direct call of fetchFromGitHubAPI: idle, fetching, done
  apiArgs,    \* its arguments: agentDayFolder, filename, parser, githubToken
  apiSent,    \* the request it issued: URL and headers
  apiAnswer,  \* the answer its fetch received
  apiOut,     \* the GitHubDataResult it returned
  csvText,    \* the content handed to the CSV parsers, a sequence of characters
  ghRows,     \* what parseCSV (github-data-access.ts) returned for it
  localRows,  \* what the csvParser of loadCSVData returned for it
  bMode,      \* who resolves the files of an agent: "requests" (one GET
              \* ?file= request per file), "demo" (getAgentDemoData),
              \* "github" (getAgentDemoDataFromGitHub under the GitHub route)
  bAgent,     \* the agent whose declared files are resolved
  bEnv,       \* per file: which candidate paths hold it and how the fetches
              \* of its raw and API URLs end (an answer, or never)
  bPc,        \* per file: idle, fetchRaw, fetchApi, done
  bRaw,       \* per file: rawResult of loadAgentDataFromGitHub
  bOut,       \* the map from file name to result built so far
  bSummary,   \* the summary of the GitHub route's response
  bValidation, \* the answer of the validate action of POST /api/agents
  rReq,       \* a GET request for one file: the route, agentId, filename,
              \* format, method, and how the providers of the file behave
  rResult,    \* the result the route handler received for it
  rResponse,  \* the response the route handler returned
  invEnv,     \* GET /api/invoice-anomalies: which tier holds invoices.csv,
              \* its text, and the draws of the mock generator
  invResult,  \* the result loadCSVData returned to the route
  invResponse, \* the response of the route
  seoFs,      \* GET /api/seo-pages: what each candidate path of the sitemap
              \* holds
  seoResponse \* the response of the route

\* the state of one resolution by loadAgentData
resolutionVars == <<request, fs, pc, idx, rawResp, rawResult, apiResp,
                    apiResult, result, trace, tier>>

\* the state of one direct call of fetchFromGitHubAPI
apiVars == <<apiPc, apiArgs, apiSent, apiAnswer, apiOut>>

\* the state of one application of the two CSV parsers
csvVars == <<csvText, ghRows, localRows>>

\* the state of the resolution of all files of one agent
batchVars == <<bMode, bAgent, bEnv, bPc, bRaw, bOut, bSummary, bValidation>>

\* the state of one GET request for a file
routeVars == <<rReq, rResult, rResponse>>

\* the state of one GET /api/invoice-anomalies request
invoiceVars == <<invEnv, invResult, invResponse>>

\* the state of one GET /api/seo-pages request
seoVars == <<seoFs, seoResponse>>

\* everything but the state of the resolution
otherVars == <<apiVars, csvVars, batchVars, routeVars, invoiceVars, seoVars>>

vars == <<resolutionVars, otherVars>>

(***************************************************************************)
(* Bounds                                                                  *)
(***************************************************************************)
\* number of local candidate paths the registry returns for one file
MaxPaths == 2

\* columns of a generated CSV line, data lines of a generated CSV text
MaxCols == 2

MaxRows == 2

(***************************************************************************)
(* JavaScript values                                                       *)
(***************************************************************************)
Undefined == [t |-> "undefined", s |-> "", n |-> 0]

Null == [t |-> "null", s |-> "", n |-> 0]

Str(s) == [t |-> "string", s |-> s, n |-> Len(s)]

Arr(s, n) == [t |-> "array", s |-> s, n |-> n]

\* ToBoolean: undefined, null and "" are falsy; every array is truthy
Truthy(v) == CASE v.t = "undefined" -> FALSE
               [] v.t = "null" -> FALSE
               [] v.t = "string" -> v.n > 0
               [] OTHER -> TRUE

\* `x == null`-style test used by the envelope invariant: null or undefined
IsNullish(v) == v.t \in {"null", "undefined"}

(***************************************************************************)
(* Registry collaborator (lib/agent-registry.ts is not part of src/)       *)
(***************************************************************************)
AGENT_REGISTRY ==
  [a \in {"invoice-anomalies", "meeting-actions", "support-router"} |->
     CASE a = "invoice-anomalies" ->
            [id |-> a, dayFolder |-> "day25_Invoice_Fraud_Anomaly_Detector",
             dataFiles |-> <<"invoices.csv", "vendors.csv">>]
       [] a = "meeting-actions" ->
            [id |-> a, dayFolder |-> "day08_Meeting_Action_Enforcer",
             dataFiles |-> <<"transcript.txt">>]
       [] OTHER ->
            [id |-> a, dayFolder |-> "day21_Support_Summarizer_and_Router",
             dataFiles |-> <<"zendesk_tickets.json", "router_policy.yaml">>]]

IsKnownAgent(agentId) == agentId \in DOMAIN AGENT_REGISTRY

getAgentConfig(agentId) ==
  IF IsKnownAgent(agentId) THEN AGENT_REGISTRY[agentId] ELSE [id |-> ""]

DataRoots == <<"/mnt/data/agents-seed-pack-full",
               "/tmp/agents-seed-pack-full",
               "./data/agents-seed-pack-full",
               "../data/agents-seed-pack-full">>

\* the ordered candidate paths of one file of one known agent
getAgentDataPath(agentId, filename) ==
  [i \in 1..MaxPaths |->
     DataRoots[i] \o "/" \o AGENT_REGISTRY[agentId].dayFolder \o "/" \o filename]

(***************************************************************************)
(* Content and parsers                                                     *)
(***************************************************************************)
\* raw text a file or an HTTP body can hold
Contents == {"[1]", "null", "{bad"}

Thrown(message) == [thrown |-> TRUE, isError |-> TRUE, message |-> message]

Returned(v) == [thrown |-> FALSE, value |-> v]

\* JSON.parse on Contents: an array, the null literal, a SyntaxError
jsonParser(content) ==
  CASE content = "[1]" -> Returned(Arr("[1]", 1))
    [] content = "null" -> Returned(Null)
    [] OTHER -> Thrown("Unexpected token in JSON")

\* the parser argument: absent, or the JSON parser of loadJSONData
Parsers == {"undefined", "jsonParser"}

\* variant: the content is parsed as JSON whether or not a parser was given
ApplyParserAlways(parser, content) == jsonParser(content)

\* parser ? parser(content) : (content as T)
ApplyParser(parser, content) ==
  IF parser = "jsonParser" THEN jsonParser(content) ELSE Returned(Str(content))

\* error instanceof Error ? error.message : 'Unknown error'
ErrorText(e) == IF e.isError THEN <<e.message>> ELSE <<"Unknown error">>

\* Buffer.from(content, 'base64').toString('utf-8') on the encodings of Contents
Base64Decode(b) ==
  CASE b = "WzFd" -> "[1]"
    [] b = "bnVsbA==" -> "null"
    [] b = "e2JhZA==" -> "{bad"
    [] OTHER -> ""

Base64Contents == {"WzFd", "bnVsbA==", "e2JhZA=="}

(***************************************************************************)
(* The CSV parsers. Text is a sequence of one-character strings; an object *)
(* is the sequence of its properties [k, v] in insertion order.            *)
(***************************************************************************)
\* the white space String.prototype.trim removes
IsSpace(c) == c \in {" ", "\t", "\n", "\r"}

\* s.trim()
Trim(s) ==
  LET kept == {i \in 1..Len(s) : ~IsSpace(s[i])} IN
  IF kept = {} THEN <<>>
  ELSE SubSeq(s, CHOOSE i \in kept : \A j \in kept : i <= j,
                 CHOOSE i \in kept : \A j \in kept : j <= i)

\* s.split(d) for a one-character delimiter d
Split(s, d) ==
  LET at == {i \in 1..Len(s) : s[i] = d}
      n == Cardinality(at)
      cut(k) == IF k = 0 THEN 0
                ELSE IF k = n + 1 THEN Len(s) + 1
                ELSE CHOOSE p \in at : Cardinality({q \in at : q < p}) = k - 1
  IN  [k \in 1..(n + 1) |-> SubSeq(s, cut(k - 1) + 1, cut(k) - 1)]

\* s.split(/\r?\n/): a line feed ends a line, a carriage return right
\* before it belongs to the line break
SplitLines(s) ==
  LET parts == Split(s, "\n") IN
  [k \in 1..Len(parts) |->
     IF k < Len(parts) /\ Len(parts[k]) > 0 /\ parts[k][Len(parts[k])] = "\r"
     THEN SubSeq(parts[k], 1, Len(parts[k]) - 1)
     ELSE parts[k]]

\* obj[k] = v: an existing property keeps its place and takes the new value
SetProperty(obj, k, v) ==
  IF \E i \in 1..Len(obj) : obj[i].k = k
  THEN [i \in 1..Len(obj) |-> IF obj[i].k = k THEN [k |-> k, v |-> v]
                              ELSE obj[i]]
  ELSE Append(obj, [k |-> k, v |-> v])

\* variant: the cell is taken as it stands, without trim
CellOrEmptyUntrimmed(values, i) == IF i <= Len(values) THEN values[i] ELSE <<>>

\* values[i]?.trim() || ''   (i counts from 1 here)
CellOrEmpty(values, i) == IF i <= Len(values) THEN Trim(values[i]) ELSE <<>>

\* headers.forEach((h, i) => { obj[h] = values[i]?.trim() || '' }) from i on
RECURSIVE ForEachHeader(_, _, _, _)
ForEachHeader(headers, values, i, obj) ==
  IF i > Len(headers) THEN obj
  ELSE ForEachHeader(headers, values, i + 1,
                     SetProperty(obj, headers[i], CellOrEmpty(values, i)))

RECURSIVE ForEachHeaderTrim(_, _, _, _)

\* variant: the header cell is used as the key without trim
ForEachHeaderKeyUntrimmed(headers, values, i, obj) ==
  ForEachHeader(headers, values, i, obj)

\* headers.forEach((h, i) => { obj[h.trim()] = values[i]?.trim() || '' })
ForEachHeaderTrim(headers, values, i, obj) ==
  IF i > Len(headers) THEN obj
  ELSE ForEachHeaderTrim(headers, values, i + 1,
                         SetProperty(obj, Trim(headers[i]),
                                     CellOrEmpty(values, i)))

\* parseCSV of github-data-access.ts
parseCSV(content) ==
  LET lines == SplitLines(Trim(content))
      header == lines[1]
      rows == SubSeq(lines, 2, Len(lines))
      cells == Split(header, ",")
      headers == [i \in 1..Len(cells) |-> Trim(cells[i])]
  IN  [r \in 1..Len(rows) |->
         ForEachHeader(headers, Split(rows[r], ","), 1, <<>>)]

\* the csvParser of loadCSVData
csvParser(content) ==
  LET lines == SplitLines(Trim(content))
      header == lines[1]
      rows == SubSeq(lines, 2, Len(lines))
      headers == Split(header, ",")
  IN  [r \in 1..Len(rows) |->
         ForEachHeaderTrim(headers, Split(rows[r], ","), 1, <<>>)]

(***************************************************************************)
(* Environment: file system states and HTTP answers                        *)
(***************************************************************************)
\* a candidate path: absent, present but unreadable (readFileSync throws),
\* or present with some content
FileStates ==
  {[exists |-> FALSE, readable |-> FALSE, content |-> ""],
   [exists |-> TRUE, readable |-> FALSE, content |-> ""]}
  \cup {[exists |-> TRUE, readable |-> TRUE, content |-> c] : c \in Contents}

\* what `await fetch(rawUrl)` followed by `await response.text()` can yield
RawResponses ==
  {[kind |-> "response", ok |-> TRUE, status |-> "200", statusText |-> "OK",
    body |-> c, message |-> ""] : c \in Contents}
  \cup {[kind |-> "response", ok |-> FALSE, status |-> "404",
         statusText |-> "Not Found", body |-> "", message |-> ""],
        [kind |-> "throw", ok |-> FALSE, status |-> "", statusText |-> "",
         body |-> "", message |-> "fetch failed"]}

\* what `await fetch(apiUrl, {headers})` followed by `await response.json()`
\* can yield: a file envelope, a directory listing envelope, a refusal,
\* a body that is no JSON, a network error
ApiResponses ==
  {[kind |-> "response", ok |-> TRUE, status |-> "200", statusText |-> "OK",
    json |-> TRUE, type |-> "file", content |-> b, message |-> ""]
     : b \in Base64Contents}
  \cup {[kind |-> "response", ok |-> TRUE, status |-> "200", statusText |-> "OK",
         json |-> TRUE, type |-> "dir", content |-> "", message |-> ""],
        [kind |-> "response", ok |-> TRUE, status |-> "200", statusText |-> "OK",
         json |-> FALSE, type |-> "", content |-> "",
         message |-> "Unexpected end of JSON input"],
        [kind |-> "response", ok |-> FALSE, status |-> "403",
         statusText |-> "rate limit exceeded", json |-> FALSE, type |-> "",
         content |-> "", message |-> ""],
        [kind |-> "throw", ok |-> FALSE, status |-> "", statusText |-> "",
         json |-> FALSE, type |-> "", content |-> "",
         message |-> "getaddrinfo ENOTFOUND api.github.com"]}

(***************************************************************************)
(* lib/github-data-access.ts                                               *)
(***************************************************************************)
DEFAULT_GITHUB_CONFIG ==
  [owner |-> "indranilbanerjee", repo |-> "hackathon-agents-starter",
   branch |-> "main", basePath |-> "data/agents-seed-pack-full"]

RawUrl(agentDayFolder, filename) ==
  LET c == DEFAULT_GITHUB_CONFIG IN
  "https://raw.githubusercontent.com/" \o c.owner \o "/" \o c.repo \o "/"
    \o c.branch \o "/" \o c.basePath \o "/" \o agentDayFolder \o "/" \o filename

ApiUrl(agentDayFolder, filename) ==
  LET c == DEFAULT_GITHUB_CONFIG IN
  "https://api.github.com/repos/" \o c.owner \o "/" \o c.repo \o "/contents/"
    \o c.basePath \o "/" \o agentDayFolder \o "/" \o filename \o "?ref=" \o c.branch

\* variant: the api URL is built without the branch (no ?ref=)
generateGitHubUrlsNoRef(agentDayFolder, filename) ==
  LET c == DEFAULT_GITHUB_CONFIG IN
  [raw |-> "https://raw.githubusercontent.com/" \o c.owner \o "/" \o c.repo
             \o "/" \o c.branch \o "/" \o c.basePath \o "/" \o agentDayFolder
             \o "/" \o filename,
   blob |-> "https://github.com/" \o c.owner \o "/" \o c.repo \o "/blob/"
             \o c.branch \o "/" \o c.basePath \o "/" \o agentDayFolder
             \o "/" \o filename,
   api |-> "https://api.github.com/repos/" \o c.owner \o "/" \o c.repo
             \o "/contents/" \o c.basePath \o "/" \o agentDayFolder \o "/"
             \o filename,
   folder |-> "https://github.com/" \o c.owner \o "/" \o c.repo \o "/tree/"
             \o c.branch \o "/" \o c.basePath \o "/" \o agentDayFolder]

generateGitHubUrls(agentDayFolder, filename) ==
  LET c == DEFAULT_GITHUB_CONFIG IN
  [raw |-> "https://raw.githubusercontent.com/" \o c.owner \o "/" \o c.repo
             \o "/" \o c.branch \o "/" \o c.basePath \o "/" \o agentDayFolder
             \o "/" \o filename,
   blob |-> "https://github.com/" \o c.owner \o "/" \o c.repo \o "/blob/"
             \o c.branch \o "/" \o c.basePath \o "/" \o agentDayFolder
             \o "/" \o filename,
   api |-> "https://api.github.com/repos/" \o c.owner \o "/" \o c.repo
             \o "/contents/" \o c.basePath \o "/" \o agentDayFolder \o "/"
             \o filename \o "?ref=" \o c.branch,
   folder |-> "https://github.com/" \o c.owner \o "/" \o c.repo \o "/tree/"
             \o c.branch \o "/" \o c.basePath \o "/" \o agentDayFolder]

\* a failed GitHubDataResult
GitHubFailure(source, error, url) ==
  [data |-> Null, source |-> source, success |-> FALSE, error |-> error,
   url |-> url]

\* variant: response.ok is not consulted, the body of an error page is
\* parsed and handed over as data
fetchFromGitHubRawNoStatusCheck(resp, parser, rawUrl) ==
  IF resp.kind = "throw"
  THEN GitHubFailure("github-raw", ErrorText(Thrown(resp.message)), rawUrl)
  ELSE LET parsed == ApplyParser(parser, resp.body) IN
       IF parsed.thrown
       THEN GitHubFailure("github-raw", ErrorText(parsed), rawUrl)
       ELSE [data |-> parsed.value, source |-> "github-raw", success |-> TRUE,
             url |-> rawUrl]

\* variant: the parser runs outside the try block and its exception is
\* dropped, an unparsable body is handed over as a success without data
fetchFromGitHubRawParseUnguarded(resp, parser, rawUrl) ==
  IF resp.kind = "throw"
  THEN GitHubFailure("github-raw", ErrorText(Thrown(resp.message)), rawUrl)
  ELSE IF ~resp.ok
  THEN GitHubFailure("github-raw",
         <<"GitHub fetch failed: ", resp.status, " ", resp.statusText>>, rawUrl)
  ELSE LET parsed == ApplyParser(parser, resp.body) IN
       [data |-> IF parsed.thrown THEN Undefined ELSE parsed.value,
        source |-> "github-raw", success |-> TRUE, url |-> rawUrl]

\* fetchFromGitHubRaw once its fetch has been answered by resp
fetchFromGitHubRaw(resp, parser, rawUrl) ==
  IF resp.kind = "throw"
  THEN GitHubFailure("github-raw", ErrorText(Thrown(resp.message)), rawUrl)
  ELSE IF ~resp.ok
  THEN GitHubFailure("github-raw",
         <<"GitHub fetch failed: ", resp.status, " ", resp.statusText>>, rawUrl)
  ELSE LET parsed == ApplyParser(parser, resp.body) IN
       IF parsed.thrown
       THEN GitHubFailure("github-raw", ErrorText(parsed), rawUrl)
       ELSE [data |-> parsed.value, source |-> "github-raw", success |-> TRUE,
             url |-> rawUrl]

\* variant: the envelope's type is not consulted, a directory listing is
\* decoded and handed over as a file
fetchFromGitHubAPINoTypeCheck(resp, parser, apiUrl) ==
  IF resp.kind = "throw"
  THEN GitHubFailure("github-api", ErrorText(Thrown(resp.message)), apiUrl)
  ELSE IF ~resp.ok
  THEN GitHubFailure("github-api",
         <<"GitHub API fetch failed: ", resp.status, " ", resp.statusText>>,
         apiUrl)
  ELSE IF ~resp.json
  THEN GitHubFailure("github-api", ErrorText(Thrown(resp.message)), apiUrl)
  ELSE LET parsed == ApplyParser(parser, Base64Decode(resp.content)) IN
       IF parsed.thrown
       THEN GitHubFailure("github-api", ErrorText(parsed), apiUrl)
       ELSE [data |-> parsed.value, source |-> "github-api", success |-> TRUE,
             url |-> apiUrl]

\* fetchFromGitHubAPI once its fetch has been answered by resp
fetchFromGitHubAPI(resp, parser, apiUrl) ==
  IF resp.kind = "throw"
  THEN GitHubFailure("github-api", ErrorText(Thrown(resp.message)), apiUrl)
  ELSE IF ~resp.ok
  THEN GitHubFailure("github-api",
         <<"GitHub API fetch failed: ", resp.status, " ", resp.statusText>>,
         apiUrl)
  ELSE IF ~resp.json
  THEN GitHubFailure("github-api", ErrorText(Thrown(resp.message)), apiUrl)
  ELSE IF resp.type # "file"
  THEN GitHubFailure("github-api", <<"Not a file">>, apiUrl)
  ELSE LET parsed == ApplyParser(parser, Base64Decode(resp.content)) IN
       IF parsed.thrown
       THEN GitHubFailure("github-api", ErrorText(parsed), apiUrl)
       ELSE [data |-> parsed.value, source |-> "github-api", success |-> TRUE,
             url |-> apiUrl]

\* the githubToken argument: absent, empty, a personal access token
GithubTokens == {Undefined, Str(""), Str("ghp_xxxxx")}

\* the headers fetchFromGitHubAPI sends; `if (githubToken)` adds Authorization
ApiHeaders(githubToken) ==
  IF Truthy(githubToken)
  THEN [Accept |-> "application/vnd.github.v3+json",
        UserAgent |-> "Agents-Starter-Repo",
        Authorization |-> "token " \o githubToken.s]
  ELSE [Accept |-> "application/vnd.github.v3+json",
        UserAgent |-> "Agents-Starter-Repo"]

\* variant: the remote loader never substitutes the mock data
GitHubMockOrFailureNoMock(rawRes, apiRes, mockData) ==
  [data |-> Null, source |-> "github-failed", success |-> FALSE,
   error |-> <<"All GitHub access methods failed. Raw: ">>
               \o rawRes.error \o <<", API: ">> \o apiRes.error]

\* loadAgentDataFromGitHub after both fetchers failed: mock data or failure
GitHubMockOrFailure(rawRes, apiRes, mockData) ==
  IF mockData # Undefined
  THEN [data |-> mockData, source |-> "mock-data", success |-> TRUE,
        error |-> <<"GitHub access failed, using mock data. Raw error: ">>
                    \o rawRes.error \o <<", API error: ">> \o apiRes.error]
  ELSE [data |-> Null, source |-> "github-failed", success |-> FALSE,
        error |-> <<"All GitHub access methods failed. Raw: ">>
                    \o rawRes.error \o <<", API: ">> \o apiRes.error]

(***************************************************************************)
(* lib/data-access.ts                                                      *)
(***************************************************************************)
\* loadAgentData's answer for an agent the registry does not know
UnknownAgentResult(agentId, mockData) ==
  [data |-> mockData, source |-> "error", success |-> FALSE,
   error |-> <<"Agent '", agentId, "' not found in registry">>]

\* variant: the winning candidate is tagged "local" instead of its path
LocalAttemptTagged(path, file, parser) ==
  IF file.exists /\ file.readable /\ ~ApplyParser(parser, file.content).thrown
  THEN [kind |-> "return",
        result |-> [data |-> ApplyParser(parser, file.content).value,
                    source |-> "local", success |-> TRUE]]
  ELSE [kind |-> "continue"]

\* variant: the loop body has no try/catch, a read or parse exception
\* leaves loadAgentData
LocalAttemptNoCatch(path, file, parser) ==
  IF ~file.exists
  THEN [kind |-> "continue"]
  ELSE IF ~file.readable \/ ApplyParser(parser, file.content).thrown
  THEN [kind |-> "throw"]
  ELSE [kind |-> "return",
        result |-> [data |-> ApplyParser(parser, file.content).value,
                    source |-> path, success |-> TRUE]]

\* variant: a read error is not swallowed, it ends the loop with a failure
LocalAttemptReadErrorFails(path, file, parser) ==
  IF ~file.exists
  THEN [kind |-> "continue"]
  ELSE IF ~file.readable
  THEN [kind |-> "return",
        result |-> [data |-> Null, source |-> path, success |-> FALSE,
                    error |-> <<"EACCES: permission denied">>]]
  ELSE LET parsed == ApplyParser(parser, file.content) IN
       IF parsed.thrown
       THEN [kind |-> "continue"]
       ELSE [kind |-> "return",
             result |-> [data |-> parsed.value, source |-> path,
                         success |-> TRUE]]

\* one iteration of the loop over possiblePaths: the result returned from
\* inside the loop, or "continue" (file absent, or the catch clause)
\* The try block encloses existsSync, readFileSync and the parser call, so
\* no iteration ends with an exception leaving the function (kind "throw").
LocalAttempt(path, file, parser) ==
  IF ~file.exists
  THEN [kind |-> "continue"]
  ELSE IF ~file.readable
  THEN [kind |-> "continue"]
  ELSE LET parsed == ApplyParser(parser, file.content) IN
       IF parsed.thrown
       THEN [kind |-> "continue"]
       ELSE [kind |-> "return",
             result |-> [data |-> parsed.value, source |-> path,
                         success |-> TRUE]]

\* the calls one iteration makes, in order
LocalCalls(path, file, parser) ==
  <<[op |-> "existsSync", arg |-> path]>>
  \o (IF file.exists THEN <<[op |-> "readFileSync", arg |-> path]>> ELSE <<>>)
  \o (IF file.exists /\ file.readable /\ parser # "undefined"
      THEN <<[op |-> "parser", arg |-> file.content]>> ELSE <<>>)

\* variant: the GitHub result is spread into the answer, its error included
GitHubSuccessResultSpread(githubResult, githubUrls) ==
  IF "error" \in DOMAIN githubResult
  THEN [data |-> githubResult.data, source |-> "github-" \o githubResult.source,
        success |-> TRUE, githubUrls |-> githubUrls,
        error |-> githubResult.error]
  ELSE [data |-> githubResult.data, source |-> "github-" \o githubResult.source,
        success |-> TRUE, githubUrls |-> githubUrls]

\* the result returned when githubResult.success
GitHubSuccessResult(githubResult, githubUrls) ==
  [data |-> githubResult.data, source |-> "github-" \o githubResult.source,
   success |-> TRUE, githubUrls |-> githubUrls]

\* what follows the GitHub attempt when it did not succeed
FinalFallback(agentId, filename, mockData, githubUrls) ==
  IF Truthy(mockData)
  THEN [data |-> mockData, source |-> "mock-data", success |-> TRUE,
        githubUrls |-> githubUrls]
  ELSE [data |-> Null, source |-> "not-found", success |-> FALSE,
        error |-> <<"No data file found for ", agentId, "/", filename,
                    " in local paths or GitHub">>,
        githubUrls |-> githubUrls]

\* loadAgentData from the GitHub result on
\* (the catch clause of lines 89-91 has nothing to catch: both fetchers
\* turn every exception into a failed GitHubDataResult)
AfterGitHub(githubResult, agentId, filename, mockData, githubUrls) ==
  IF githubResult.success
  THEN GitHubSuccessResult(githubResult, githubUrls)
  ELSE FinalFallback(agentId, filename, mockData, githubUrls)

(***************************************************************************)
(* The resolution process                                                  *)
(***************************************************************************)
Tiers == {"local", "remote-raw", "remote-api", "synthetic"}

AgentIds == DOMAIN AGENT_REGISTRY \cup {"unknown-agent"}

\* synthetic fallbacks a caller passes: none, null, "", [], 20 invoice rows
MockValues == {Undefined, Null, Str(""), Arr("[]", 0), Arr("invoices", 20)}

Requests ==
  {[agentId |-> a, filename |-> f, parser |-> p, mockData |-> m] :
     a \in AgentIds, f \in {"invoices.csv"}, p \in Parsers, m \in MockValues}

PossiblePaths == IF IsKnownAgent(request.agentId)
                 THEN getAgentDataPath(request.agentId, request.filename)
                 ELSE <<>>

PathSet(req) == IF IsKnownAgent(req.agentId)
                THEN {getAgentDataPath(req.agentId, req.filename)[i] :
                        i \in 1..MaxPaths}
                ELSE {}

DayFolder == getAgentConfig(request.agentId).dayFolder

GithubUrls == generateGitHubUrls(DayFolder, request.filename)

NoResult == [pending |-> TRUE]

NoResponse == [kind |-> "none"]

\* no direct call of fetchFromGitHubAPI is under way
ApiIdle ==
  /\ apiPc = "idle"
  /\ apiArgs = NoResult
  /\ apiSent = NoResponse
  /\ apiAnswer = NoResponse
  /\ apiOut = NoResult

\* no batch is under way
BatchIdle ==
  /\ bMode = "none"
  /\ bAgent = ""
  /\ bEnv = NoResult
  /\ bPc = NoResult
  /\ bRaw = NoResult
  /\ bOut = NoResult
  /\ bSummary = NoResult
  /\ bValidation = NoResult

\* no GET request for a file is being served
RouteIdle ==
  /\ rReq = NoResult
  /\ rResult = NoResult
  /\ rResponse = NoResponse

\* no invoice-anomalies request is being served
InvoiceIdle ==
  /\ invEnv = NoResult
  /\ invResult = NoResult
  /\ invResponse = NoResponse

\* no seo-pages request is being served
SeoIdle ==
  /\ seoFs = NoResult
  /\ seoResponse = NoResponse

\* no CSV text is being parsed
CsvIdle ==
  /\ csvText = <<>>
  /\ ghRows = NoResult
  /\ localRows = NoResult

Init ==
  /\ request \in Requests
  /\ fs \in [PathSet(request) -> FileStates]
  /\ pc = "start"
  /\ idx = 1
  /\ rawResp = NoResponse
  /\ rawResult = NoResult
  /\ apiResp = NoResponse
  /\ apiResult = NoResult
  /\ result = NoResult
  /\ trace = <<>>
  /\ tier = [t \in Tiers |-> "idle"]
  /\ ApiIdle
  /\ CsvIdle
  /\ BatchIdle
  /\ RouteIdle
  /\ InvoiceIdle
  /\ SeoIdle

\* loadAgentData, lines 39-50: registry lookup
Resolve ==
  /\ pc = "start"
  /\ trace' = Append(trace, [op |-> "getAgentConfig", arg |-> request.agentId])
  /\ IF ~IsKnownAgent(request.agentId)
     THEN /\ result' = UnknownAgentResult(request.agentId, request.mockData)
          /\ pc' = "done"
          /\ tier' = tier
     ELSE /\ result' = result
          /\ pc' = "local"
          /\ tier' = [tier EXCEPT !["local"] = "running"]
  /\ UNCHANGED <<request, fs, idx, rawResp, rawResult, apiResp, apiResult>>
  /\ UNCHANGED otherVars

\* loadAgentData, lines 53-68: one candidate path
TryLocalPath ==
  /\ pc = "local"
  /\ idx <= Len(PossiblePaths)
  /\ LET path == PossiblePaths[idx]
         out == LocalAttempt(path, fs[path], request.parser)
     IN  /\ trace' = trace \o LocalCalls(path, fs[path], request.parser)
         /\ CASE out.kind = "return" ->
                   /\ result' = out.result
                   /\ pc' = "done"
                   /\ tier' = [tier EXCEPT !["local"] = "succeeded"]
                   /\ idx' = idx
              [] out.kind = "continue" ->
                   /\ result' = result
                   /\ pc' = "local"
                   /\ tier' = tier
                   /\ idx' = idx + 1
              [] OTHER ->
                   /\ result' = result
                   /\ pc' = "thrown"
                   /\ tier' = tier
                   /\ idx' = idx
  /\ UNCHANGED <<request, fs, rawResp, rawResult, apiResp, apiResult>>
  /\ UNCHANGED otherVars

\* variant: the raw fetch is issued while the local loop is still running
\* (the tiers are raced)
StartGitHubRaced ==
  /\ pc = "local"
  /\ trace' = Append(trace, [op |-> "fetch",
                             arg |-> RawUrl(DayFolder, request.filename)])
  /\ tier' = [tier EXCEPT !["remote-raw"] = "running"]
  /\ pc' = "fetchRaw"
  /\ UNCHANGED <<request, fs, idx, rawResp, rawResult, apiResp, apiResult,
                 result>>
  /\ UNCHANGED otherVars

\* loadAgentData, lines 70-79, and fetchFromGitHubRaw up to its fetch
StartGitHub ==
  /\ pc = "local"
  /\ idx > Len(PossiblePaths)
  /\ trace' = Append(trace, [op |-> "fetch",
                             arg |-> RawUrl(DayFolder, request.filename)])
  /\ tier' = [tier EXCEPT !["local"] = "failed", !["remote-raw"] = "running"]
  /\ pc' = "fetchRaw"
  /\ UNCHANGED <<request, fs, idx, rawResp, rawResult, apiResp, apiResult,
                 result>>
  /\ UNCHANGED otherVars

\* variant: a raw fetch that ended in a network error is issued once more
RawFetchCompletesRetry ==
  /\ pc = "fetchRaw"
  /\ \E resp \in RawResponses :
       LET rawRes == fetchFromGitHubRaw(resp, request.parser,
                                        RawUrl(DayFolder, request.filename))
           fetches == Len(SelectSeq(trace, LAMBDA c : c.op = "fetch"))
       IN  /\ rawResp' = resp
           /\ rawResult' = rawRes
           /\ IF rawRes.success
              THEN /\ result' = AfterGitHub(rawRes, request.agentId,
                                   request.filename, request.mockData, GithubUrls)
                   /\ pc' = "done"
                   /\ tier' = [tier EXCEPT !["remote-raw"] = "succeeded"]
                   /\ trace' = trace
              ELSE IF resp.kind = "throw" /\ fetches < 2
              THEN /\ result' = result
                   /\ pc' = "fetchRaw"
                   /\ tier' = tier
                   /\ trace' = Append(trace,
                                 [op |-> "fetch",
                                  arg |-> RawUrl(DayFolder, request.filename)])
              ELSE /\ result' = result
                   /\ pc' = "fetchApi"
                   /\ tier' = [tier EXCEPT !["remote-raw"] = "failed",
                                           !["remote-api"] = "running"]
                   /\ trace' = Append(trace,
                                 [op |-> "fetch",
                                  arg |-> ApiUrl(DayFolder, request.filename)])
  /\ UNCHANGED <<request, fs, idx, apiResp, apiResult>>
  /\ UNCHANGED otherVars

\* the raw fetch is answered: rest of fetchFromGitHubRaw, then either the
\* return of loadAgentDataFromGitHub and loadAgentData, or the API fetch
RawFetchCompletes ==
  /\ pc = "fetchRaw"
  /\ \E resp \in RawResponses :
       LET rawRes == fetchFromGitHubRaw(resp, request.parser,
                                        RawUrl(DayFolder, request.filename))
       IN  /\ rawResp' = resp
           /\ rawResult' = rawRes
           /\ IF rawRes.success
              THEN /\ result' = AfterGitHub(rawRes, request.agentId,
                                   request.filename, request.mockData, GithubUrls)
                   /\ pc' = "done"
                   /\ tier' = [tier EXCEPT !["remote-raw"] = "succeeded"]
                   /\ trace' = IF resp.ok /\ request.parser # "undefined"
                               THEN Append(trace, [op |-> "parser", arg |-> resp.body])
                               ELSE trace
              ELSE /\ result' = result
                   /\ pc' = "fetchApi"
                   /\ tier' = [tier EXCEPT !["remote-raw"] = "failed",
                                           !["remote-api"] = "running"]
                   /\ trace' = (IF resp.kind = "response" /\ resp.ok
                                   /\ request.parser # "undefined"
                                THEN Append(trace, [op |-> "parser", arg |-> resp.body])
                                ELSE trace)
                               \o <<[op |-> "fetch",
                                     arg |-> ApiUrl(DayFolder, request.filename)]>>
  /\ UNCHANGED <<request, fs, idx, apiResp, apiResult>>
  /\ UNCHANGED otherVars

\* variant: a failed API fetch is issued again until it succeeds
ApiFetchCompletesPolls ==
  /\ pc = "fetchApi"
  /\ \E resp \in ApiResponses :
       LET apiRes == fetchFromGitHubAPI(resp, request.parser,
                                        ApiUrl(DayFolder, request.filename))
       IN  /\ apiResp' = resp
           /\ apiResult' = apiRes
           /\ IF apiRes.success
              THEN /\ result' = AfterGitHub(apiRes, request.agentId,
                                   request.filename, request.mockData, GithubUrls)
                   /\ pc' = "done"
                   /\ tier' = [tier EXCEPT !["remote-api"] = "succeeded"]
              ELSE /\ result' = result
                   /\ pc' = "fetchApi"
                   /\ tier' = tier
           /\ trace' = trace
  /\ UNCHANGED <<request, fs, idx, rawResp, rawResult>>
  /\ UNCHANGED otherVars

\* the API fetch is answered: rest of fetchFromGitHubAPI, of
\* loadAgentDataFromGitHub (lines 219-239) and of loadAgentData (81-109)
ApiFetchCompletes ==
  /\ pc = "fetchApi"
  /\ \E resp \in ApiResponses :
       LET apiRes == fetchFromGitHubAPI(resp, request.parser,
                                        ApiUrl(DayFolder, request.filename))
           githubResult == IF apiRes.success THEN apiRes
                           ELSE GitHubMockOrFailure(rawResult, apiRes,
                                                    request.mockData)
           res == AfterGitHub(githubResult, request.agentId, request.filename,
                              request.mockData, GithubUrls)
       IN  /\ apiResp' = resp
           /\ apiResult' = apiRes
           /\ result' = res
           /\ pc' = "done"
           /\ tier' = IF apiRes.success
                      THEN [tier EXCEPT !["remote-api"] = "succeeded"]
                      ELSE [tier EXCEPT !["remote-api"] = "failed",
                                        !["synthetic"] =
                                           IF res.success THEN "succeeded"
                                           ELSE "failed"]
           /\ trace' = IF resp.kind = "response" /\ resp.ok /\ resp.json
                          /\ resp.type = "file" /\ request.parser # "undefined"
                       THEN Append(trace, [op |-> "parser",
                                           arg |-> Base64Decode(resp.content)])
                       ELSE trace
  /\ UNCHANGED <<request, fs, idx, rawResp, rawResult>>
  /\ UNCHANGED otherVars

Next ==
  \/ Resolve
  \/ TryLocalPath
  \/ StartGitHub
  \/ RawFetchCompletes
  \/ ApiFetchCompletes

Spec == Init /\ [][Next]_vars

\* the resolution under its scheduling: the segments of loadAgentData run
\* to completion, and every fetch that was issued is answered at some time
FairSpec ==
  /\ Spec
  /\ WF_vars(Resolve)
  /\ WF_vars(TryLocalPath)
  /\ WF_vars(StartGitHub)
  /\ WF_vars(RawFetchCompletes)
  /\ WF_vars(ApiFetchCompletes)

(***************************************************************************)
(* A direct call of fetchFromGitHubAPI (github-data-access.ts:78-142), as  *)
(* the GitHub data route makes it, with every argument it accepts          *)
(***************************************************************************)
\* no resolution is under way
ResolutionIdle ==
  /\ request = NoResult
  /\ fs = <<>>
  /\ pc = "idle"
  /\ idx = 1
  /\ rawResp = NoResponse
  /\ rawResult = NoResult
  /\ apiResp = NoResponse
  /\ apiResult = NoResult
  /\ result = NoResult
  /\ trace = <<>>
  /\ tier = [t \in Tiers |-> "idle"]

ApiArgsSet ==
  {[agentDayFolder |-> AGENT_REGISTRY[a].dayFolder, filename |-> f,
    parser |-> p, githubToken |-> t] :
     a \in DOMAIN AGENT_REGISTRY, f \in {"invoices.csv", "vendors.csv"},
     p \in Parsers, t \in GithubTokens}

ApiInit ==
  /\ ResolutionIdle
  /\ apiPc = "start"
  /\ apiArgs \in ApiArgsSet
  /\ apiSent = NoResponse
  /\ apiAnswer = NoResponse
  /\ apiOut = NoResult
  /\ CsvIdle
  /\ BatchIdle
  /\ RouteIdle
  /\ InvoiceIdle
  /\ SeoIdle

\* lines 86-98: the URL, the headers, `await fetch(apiUrl, { headers })`
ApiCallFetch ==
  /\ apiPc = "start"
  /\ apiSent' = [kind |-> "request",
                 url |-> ApiUrl(apiArgs.agentDayFolder, apiArgs.filename),
                 headers |-> ApiHeaders(apiArgs.githubToken)]
  /\ apiPc' = "fetching"
  /\ UNCHANGED <<apiArgs, apiAnswer, apiOut>>
  /\ UNCHANGED <<resolutionVars, csvVars, batchVars, routeVars, invoiceVars, seoVars>>

\* lines 98-141: the fetch is answered and the function returns
ApiCallReturns ==
  /\ apiPc = "fetching"
  /\ \E resp \in ApiResponses :
       /\ apiAnswer' = resp
       /\ apiOut' = fetchFromGitHubAPI(resp, apiArgs.parser, apiSent.url)
  /\ apiPc' = "done"
  /\ UNCHANGED <<apiArgs, apiSent>>
  /\ UNCHANGED <<resolutionVars, csvVars, batchVars, routeVars, invoiceVars, seoVars>>

ApiNext ==
  \/ ApiCallFetch
  \/ ApiCallReturns

ApiSpec == ApiInit /\ [][ApiNext]_vars

(***************************************************************************)
(* The two CSV parsers applied to one text                                 *)
(***************************************************************************)
HeaderCells == {<<"a">>, <<"b">>}

\* a data line of 1..MaxCols cells holds "1" and "2" in alternation,
\* starting with either
DataLines ==
  {[i \in 1..n |-> IF (i + s) % 2 = 0 THEN <<"1">> ELSE <<"2">>] :
     n \in 1..MaxCols, s \in {0, 1}}

\* how a text is laid out: line feeds and bare cells, or CR LF line breaks
\* with a blank around each cell and a line break at the end of the text
CsvStyles == {[eol |-> <<"\n">>, pad |-> <<>>],
              [eol |-> <<"\r", "\n">>, pad |-> <<" ">>]}

\* the pieces joined by sep
RECURSIVE Join(_, _)
Join(pieces, sep) ==
  IF Len(pieces) = 0 THEN <<>>
  ELSE IF Len(pieces) = 1 THEN pieces[1]
  ELSE pieces[1] \o sep \o Join(Tail(pieces), sep)

\* a header line of 1..MaxCols cells
HeaderLines == UNION {[1..n -> HeaderCells] : n \in 1..MaxCols}

\* the text of a header line and up to MaxRows data lines in a style
CsvTextOf(header, rows, style) ==
  LET line(cells) == Join([i \in 1..Len(cells) |->
                             style.pad \o cells[i] \o style.pad], <<",">>)
  IN  Join(<<line(header)>> \o [r \in 1..Len(rows) |-> line(rows[r])],
           style.eol)
      \o (IF style.pad = <<>> THEN <<>> ELSE style.eol)

CsvTexts ==
  {CsvTextOf(h, rows, style) :
     h \in HeaderLines,
     rows \in UNION {[1..n -> DataLines] : n \in 0..MaxRows},
     style \in CsvStyles}

CsvInit ==
  /\ ResolutionIdle
  /\ ApiIdle
  /\ csvText \in CsvTexts
  /\ ghRows = NoResult
  /\ localRows = NoResult
  /\ BatchIdle
  /\ RouteIdle
  /\ InvoiceIdle
  /\ SeoIdle

\* parseCSV(content), as loadAgentDataFromGitHub calls it on a fetched body
ParseCSV ==
  /\ ghRows = NoResult
  /\ ghRows' = Returned(parseCSV(csvText))
  /\ UNCHANGED <<csvText, localRows>>
  /\ UNCHANGED <<resolutionVars, apiVars, batchVars, routeVars, invoiceVars, seoVars>>

\* csvParser(content), as loadAgentData calls it on a file's content
CsvParser ==
  /\ localRows = NoResult
  /\ localRows' = Returned(csvParser(csvText))
  /\ UNCHANGED <<csvText, ghRows>>
  /\ UNCHANGED <<resolutionVars, apiVars, batchVars, routeVars, invoiceVars, seoVars>>

CsvNext ==
  \/ ParseCSV
  \/ CsvParser

CsvSpec == CsvInit /\ [][CsvNext]_vars

(***************************************************************************)
(* All declared files of one agent: concurrent GET ?file= requests of the  *)
(* data route, getAgentDemoData, or getAgentDemoDataFromGitHub under the   *)
(* GitHub route. A file's resolution runs from one await to the next in    *)
(* one step; the local loop has no await and is part of the first step.    *)
(***************************************************************************)
BatchModes == {"requests", "demo", "github"}

DataFiles == AGENT_REGISTRY[bAgent].dataFiles

FileSet == {DataFiles[i] : i \in 1..Len(DataFiles)}

\* the agents whose files are resolved together here: those with JSON and
\* text files (CSV parsing has its own specification, CsvSpec)
BatchAgents == {"meeting-actions", "support-router"}

\* filename.split('.').pop()?.toLowerCase() on the declared file names
Extension(filename) ==
  CASE filename \in {"invoices.csv", "vendors.csv"} -> "csv"
    [] filename = "zendesk_tickets.json" -> "json"
    [] filename = "transcript.txt" -> "txt"
    [] filename = "router_policy.yaml" -> "yaml"
    [] OTHER -> ""

\* what every source holds for a declared file, and its base64 form
FileContent(filename) ==
  CASE filename = "zendesk_tickets.json" -> "[1]"
    [] filename = "router_policy.yaml" -> "{bad"
    [] OTHER -> "null"

FileBase64(filename) ==
  CASE filename = "zendesk_tickets.json" -> "WzFd"
    [] filename = "router_policy.yaml" -> "e2JhZA=="
    [] OTHER -> "bnVsbA=="

\* the fetch is never answered
Hang == [kind |-> "hang"]

\* how the providers of one file behave: which candidate paths hold the
\* file, how the fetch of its raw URL and of its API URL ends
ProviderFates ==
  [fs : [1..MaxPaths -> {"absent", "present"}],
   raw : {"ok", "404", "hang"},
   api : {"file", "403", "hang"}]

\* existsSync / readFileSync on the candidate paths of a file
FilesOf(agentId, filename, fate) ==
  LET paths == getAgentDataPath(agentId, filename) IN
  [p \in {paths[i] : i \in 1..MaxPaths} |->
     IF \E i \in 1..MaxPaths : paths[i] = p /\ fate.fs[i] = "present"
     THEN [exists |-> TRUE, readable |-> TRUE, content |-> FileContent(filename)]
     ELSE [exists |-> FALSE, readable |-> FALSE, content |-> ""]]

\* the answer to fetch(rawUrl) of a file
RawAnswerOf(filename, fate) ==
  CASE fate.raw = "ok" ->
         [kind |-> "response", ok |-> TRUE, status |-> "200",
          statusText |-> "OK", body |-> FileContent(filename), message |-> ""]
    [] fate.raw = "404" ->
         [kind |-> "response", ok |-> FALSE, status |-> "404",
          statusText |-> "Not Found", body |-> "", message |-> ""]
    [] OTHER -> Hang

\* the answer to fetch(apiUrl) of a file
ApiAnswerOf(filename, fate) ==
  CASE fate.api = "file" ->
         [kind |-> "response", ok |-> TRUE, status |-> "200",
          statusText |-> "OK", json |-> TRUE, type |-> "file",
          content |-> FileBase64(filename), message |-> ""]
    [] fate.api = "403" ->
         [kind |-> "response", ok |-> FALSE, status |-> "403",
          statusText |-> "rate limit exceeded", json |-> FALSE, type |-> "",
          content |-> "", message |-> ""]
    [] OTHER -> Hang

\* variant: getAgentDemoData passes no mock value
DemoMockNone(filename) == Undefined

\* the mock value getAgentDemoData passes for a file (lines 326-358)
DemoMock(filename) ==
  CASE filename = "zendesk_tickets.json" -> Arr("supportTickets", 5)
    [] filename = "transcript.txt" ->
         Str("Meeting Transcript - Project Planning Session")
    [] OTHER -> Str("Unknown file type")

\* the parser each caller selects by extension: JSON.parse for json files
\* (jsonParser of loadJSONData, parseJSON), none for text
BatchParser(mode, filename) ==
  IF Extension(filename) = "json" THEN "jsonParser" ELSE "undefined"

\* only getAgentDemoData passes mock data
BatchMock(mode, filename) ==
  IF mode = "demo" THEN DemoMock(filename) ELSE Undefined

\* the loop over possiblePaths from candidate i on
RECURSIVE LocalLoop(_, _, _, _)
LocalLoop(paths, files, parser, i) ==
  IF i > Len(paths) THEN [kind |-> "continue"]
  ELSE LET out == LocalAttempt(paths[i], files[paths[i]], parser) IN
       IF out.kind = "continue" THEN LocalLoop(paths, files, parser, i + 1)
       ELSE out

\* what the caller keeps of a result: getAgentDemoData keeps data, source
\* and success (lines 365-369), the others keep the result
Entry(mode, res) ==
  IF mode = "demo"
  THEN [data |-> res.data, source |-> res.source, success |-> res.success]
  ELSE res

\* variant: the map is replaced by one holding the new entry only
StoreResultAlone(out, filename, entry) == [x \in {filename} |-> entry]

\* demoData[filename] = ... , results[filename] = ...
StoreResult(out, filename, entry) ==
  [x \in DOMAIN out \cup {filename} |-> IF x = filename THEN entry ELSE out[x]]

\* what the resolution makes of a GitHub result: loadAgentData wraps it,
\* getAgentDemoDataFromGitHub takes it as it is
FromGitHub(mode, agentId, filename, githubResult) ==
  IF mode = "github" THEN githubResult
  ELSE AfterGitHub(githubResult, agentId, filename, BatchMock(mode, filename),
                   generateGitHubUrls(AGENT_REGISTRY[agentId].dayFolder,
                                      filename))

BatchInit ==
  /\ ResolutionIdle
  /\ ApiIdle
  /\ CsvIdle
  /\ RouteIdle
  /\ InvoiceIdle
  /\ SeoIdle
  /\ bMode \in BatchModes
  /\ bAgent \in BatchAgents
  /\ bEnv \in [FileSet -> ProviderFates]
  /\ bPc = [f \in FileSet |-> "idle"]
  /\ bRaw = [f \in FileSet |-> NoResult]
  /\ bOut = [f \in {} |-> NoResult]
  /\ bSummary = NoResult
  /\ bValidation = NoResult

\* a file's resolution may begin: a request at any time, an iteration of
\* the for loop once the iterations before it are over
MayStart(filename) ==
  \/ bMode = "requests"
  \/ \A i \in 1..Len(DataFiles) :
       DataFiles[i] = filename =>
         \A j \in 1..(i - 1) : bPc[DataFiles[j]] = "done"

\* the call for one file up to its first await: the local loop of
\* loadAgentData, then fetch(rawUrl)
StartFile(filename) ==
  /\ bPc[filename] = "idle"
  /\ MayStart(filename)
  /\ LET local == IF bMode = "github" THEN [kind |-> "continue"]
                  ELSE LocalLoop(getAgentDataPath(bAgent, filename),
                                 FilesOf(bAgent, filename, bEnv[filename]),
                                 BatchParser(bMode, filename), 1)
     IN  IF local.kind = "return"
         THEN /\ bOut' = StoreResult(bOut, filename, Entry(bMode, local.result))
              /\ bPc' = [bPc EXCEPT ![filename] = "done"]
         ELSE /\ bOut' = bOut
              /\ bPc' = [bPc EXCEPT ![filename] = "fetchRaw"]
  /\ UNCHANGED <<bMode, bAgent, bEnv, bRaw, bSummary, bValidation>>
  /\ UNCHANGED <<resolutionVars, apiVars, csvVars, routeVars, invoiceVars, seoVars>>

\* the raw fetch of one file is answered
FileRawAnswered(filename) ==
  /\ bPc[filename] = "fetchRaw"
  /\ bEnv[filename].raw # "hang"
  /\ LET rawRes == fetchFromGitHubRaw(RawAnswerOf(filename, bEnv[filename]),
                     BatchParser(bMode, filename),
                     RawUrl(AGENT_REGISTRY[bAgent].dayFolder, filename))
     IN  /\ bRaw' = [bRaw EXCEPT ![filename] = rawRes]
         /\ IF rawRes.success
            THEN /\ bOut' = StoreResult(bOut, filename,
                              Entry(bMode, FromGitHub(bMode, bAgent, filename,
                                                      rawRes)))
                 /\ bPc' = [bPc EXCEPT ![filename] = "done"]
            ELSE /\ bOut' = bOut
                 /\ bPc' = [bPc EXCEPT ![filename] = "fetchApi"]
  /\ UNCHANGED <<bMode, bAgent, bEnv, bSummary, bValidation>>
  /\ UNCHANGED <<resolutionVars, apiVars, csvVars, routeVars, invoiceVars, seoVars>>

\* the API fetch of one file is answered
FileApiAnswered(filename) ==
  /\ bPc[filename] = "fetchApi"
  /\ bEnv[filename].api # "hang"
  /\ LET apiRes == fetchFromGitHubAPI(ApiAnswerOf(filename, bEnv[filename]),
                     BatchParser(bMode, filename),
                     ApiUrl(AGENT_REGISTRY[bAgent].dayFolder, filename))
         githubResult == IF apiRes.success THEN apiRes
                         ELSE GitHubMockOrFailure(bRaw[filename], apiRes,
                                                  BatchMock(bMode, filename))
     IN  /\ bOut' = StoreResult(bOut, filename,
                      Entry(bMode, FromGitHub(bMode, bAgent, filename,
                                              githubResult)))
         /\ bPc' = [bPc EXCEPT ![filename] = "done"]
  /\ UNCHANGED <<bMode, bAgent, bEnv, bRaw, bSummary, bValidation>>
  /\ UNCHANGED <<resolutionVars, apiVars, csvVars, routeVars, invoiceVars, seoVars>>

\* one step of the resolution of one file
FileStep(filename) ==
  \/ StartFile(filename)
  \/ FileRawAnswered(filename)
  \/ FileApiAnswered(filename)

\* variant: the succeeded count is taken over the declared files, an entry
\* that is missing or failed still counts
SummaryOfDeclared(dataFiles, results) ==
  [totalFiles |-> Len(dataFiles),
   successfullyLoaded |-> Len(dataFiles),
   failedToLoad |-> 0,
   allDataAvailable |-> TRUE]

\* the summary of the GitHub route (part_000, lines 94-101)
Summary(dataFiles, results) ==
  LET successCount == Cardinality({f \in DOMAIN results : results[f].success})
  IN  [totalFiles |-> Len(dataFiles),
       successfullyLoaded |-> successCount,
       failedToLoad |-> Len(dataFiles) - successCount,
       allDataAvailable |-> successCount = Len(dataFiles)]

\* the GitHub route answers once getAgentDemoDataFromGitHub has returned
Respond ==
  /\ bMode = "github"
  /\ \A f \in FileSet : bPc[f] = "done"
  /\ bSummary = NoResult
  /\ bSummary' = Summary(DataFiles, bOut)
  /\ UNCHANGED <<bMode, bAgent, bEnv, bPc, bRaw, bOut, bValidation>>
  /\ UNCHANGED <<resolutionVars, apiVars, csvVars, routeVars, invoiceVars, seoVars>>

\* what the registry can hold as status and complexity of an agent
AgentStatuses == {"implemented", "planned"}

AgentComplexities == {3, 4, 5}

\* generateRecommendations (data route file, lines 371-401): the kinds of
\* the recommendations pushed, in order
generateRecommendations(status, complexity, dataStatus) ==
  LET missingData == SelectSeq(dataStatus, LAMBDA d : ~d.exists) IN
  (IF status = "planned" THEN <<"implement-route", "create-tests">> ELSE <<>>)
  \o (IF Len(missingData) > 0 THEN <<"add-demo-data-files">> ELSE <<>>)
  \o <<"review-documentation">>
  \o (IF complexity >= 4 THEN <<"ml-components", "error-handling">> ELSE <<>>)
  \o (IF complexity >= 5 THEN <<"analytics", "monitoring">> ELSE <<>>)

\* Object.entries(demoData).map(...): one status per entry, in the order
\* the entries were assigned
DataStatus(dataFiles, demoData) ==
  [i \in 1..Len(dataFiles) |->
     [filename |-> dataFiles[i], exists |-> demoData[dataFiles[i]].success,
      source |-> demoData[dataFiles[i]].source]]

\* POST /api/agents, action 'validate', once getAgentDemoData has returned
Validate ==
  /\ bMode = "demo"
  /\ \A f \in FileSet : bPc[f] = "done"
  /\ bValidation = NoResult
  /\ \E status \in AgentStatuses : \E complexity \in AgentComplexities :
       bValidation' =
         [valid |-> TRUE,
          dataStatus |-> DataStatus(DataFiles, bOut),
          recommendations |->
            generateRecommendations(status, complexity,
                                    DataStatus(DataFiles, bOut))]
  /\ UNCHANGED <<bMode, bAgent, bEnv, bPc, bRaw, bOut, bSummary>>
  /\ UNCHANGED <<resolutionVars, apiVars, csvVars, routeVars, invoiceVars, seoVars>>

BatchNext ==
  \/ \E f \in FileSet : StartFile(f)
  \/ \E f \in FileSet : FileRawAnswered(f)
  \/ \E f \in FileSet : FileApiAnswered(f)
  \/ Respond
  \/ Validate

BatchSpec == BatchInit /\ [][BatchNext]_vars

(***************************************************************************)
(* Observations used by the properties                                     *)
(***************************************************************************)
Done == pc = "done"

Known == IsKnownAgent(request.agentId)

\* the calls of one kind made so far
Calls(op) == {i \in 1..Len(trace) : trace[i].op = op}

\* a provider has been invoked: a file-system call or a fetch
ProviderCalls == Calls("existsSync") \cup Calls("readFileSync") \cup Calls("fetch")

\* candidate i exists, can be read and its content can be parsed
CanAnswer(i) ==
  LET file == fs[PossiblePaths[i]] IN
  file.exists /\ file.readable /\ ~ApplyParser(request.parser, file.content).thrown

LocalCanSucceed == Known /\ \E i \in 1..Len(PossiblePaths) : CanAnswer(i)

FirstAnswering == CHOOSE i \in 1..Len(PossiblePaths) :
                    CanAnswer(i) /\ \A j \in 1..(i - 1) : ~CanAnswer(j)

\* text `part` occurs in text `text` (both sequences of string parts)
Contains(text, part) ==
  \E i \in 0..(Len(text) - Len(part)) : SubSeq(text, i + 1, i + Len(part)) = part

TierRank == [t \in Tiers |-> CASE t = "local" -> 1
                               [] t = "remote-raw" -> 2
                               [] t = "remote-api" -> 3
                               [] OTHER -> 4]

\* the tag each provider gives its own result: fetchFromGitHubRaw,
\* fetchFromGitHubAPI, the mock-data branches
ProviderTag == [t \in Tiers \ {"local"} |->
                  CASE t = "remote-raw" -> "github-raw"
                    [] t = "remote-api" -> "github-api"
                    [] OTHER -> "mock-data"]

\* a source names a tier: a candidate path names the local tier, a
\* provider's tag, bare or behind the resolver's "github-" prefix, names it
SourceNames(source, t) ==
  IF t = "local" THEN source \in PathSet(request)
  ELSE source \in {ProviderTag[t], "github-" \o ProviderTag[t]}

LiveTiersFailed ==
  /\ tier["local"] = "failed"
  /\ tier["remote-raw"] = "failed"
  /\ tier["remote-api"] = "failed"

(***************************************************************************)
(* C1..C10                                                                 *)
(***************************************************************************)

\* C1 (priority invariant): whenever some local candidate of a known agent
\* exists and can be read and parsed, no fetch is ever issued, and the
\* result is a success whose source is the first such candidate path.
C1_LocalPriority ==
  LocalCanSucceed =>
    /\ Calls("fetch") = {}
    /\ tier["remote-raw"] = "idle" /\ tier["remote-api"] = "idle"
    /\ Done => /\ result.success
               /\ result.source = PossiblePaths[FirstAnswering]

\* C1 witness: the first candidate is present but cannot be read, the
\* second one answered, and the resolution is over.
C1_Witness ==
  /\ Done /\ Known
  /\ fs[PossiblePaths[1]].exists /\ ~fs[PossiblePaths[1]].readable
  /\ CanAnswer(2)
  /\ result.source = PossiblePaths[2]

\* C2 (tier order): a tier is started only when every tier of higher
\* priority has failed, so at most one tier runs at a time; a tier that
\* succeeded ends the resolution, nothing runs after it; and the source of a
\* successful result names the tier that succeeded.
C2_TierOrder ==
  /\ \A t \in Tiers : tier[t] # "idle" =>
       \A h \in Tiers : TierRank[h] < TierRank[t] => tier[h] = "failed"
  /\ Cardinality({t \in Tiers : tier[t] = "running"}) <= 1
  /\ \A t \in Tiers : tier[t] = "succeeded" => Done /\ ~ENABLED Next
  /\ (Done /\ Known /\ result.success) =>
       \E t \in Tiers : tier[t] = "succeeded" /\ SourceNames(result.source, t)

\* C2 witness: local, remote-raw and remote-api failed one after the other
\* and the synthetic tier answered.
C2_Witness ==
  /\ Done /\ LiveTiersFailed
  /\ tier["synthetic"] = "succeeded"
  /\ result.success

\* C3 (unknown entity): for an agent the registry does not know the result
\* is success=false with source "not-found", its error mentions the agent
\* id, and no provider was invoked.
C3_UnknownAgentNotFound ==
  (Done /\ ~Known) =>
    /\ result.success = FALSE
    /\ result.source = "not-found"
    /\ Contains(result.error, <<request.agentId>>)
    /\ ProviderCalls = {}
    /\ \A t \in Tiers : tier[t] = "idle"

\* C4 (envelope invariant): in every result, data is non-null iff success.
C4_DataIffSuccess ==
  Done => (~IsNullish(result.data) <=> result.success)

\* C5 (source vocabulary): the source of every result is a candidate path
\* or one of the fixed tags; the tags remote-raw, remote-api and synthetic
\* are the tags the providers give their results (github-raw, github-api,
\* mock-data).
C5_SourceVocabulary ==
  Done => result.source \in PathSet(request) \cup
            {ProviderTag["remote-raw"], ProviderTag["remote-api"],
             ProviderTag["synthetic"], "not-found", "error"}

\* C6 (error isolation): loadAgentData never raises, a tier that failed has
\* handed over to the next tier, and a resolution that is not over can
\* always take its next step; when it is over the result is an envelope.
C6_NeverThrows ==
  /\ pc # "thrown"
  /\ tier["local"] = "failed" => tier["remote-raw"] # "idle"
  /\ tier["remote-raw"] = "failed" => tier["remote-api"] # "idle"
  /\ tier["remote-api"] = "failed" => tier["synthetic"] # "idle"
  /\ Done \/ ENABLED Next
  /\ Done => "success" \in DOMAIN result

\* C6 witness: a resolution that met a read error, a parser exception, a
\* network exception and a non-file API answer, and returned.
C6_Witness ==
  /\ Done /\ Known
  /\ \E p \in PathSet(request) : fs[p].exists /\ ~fs[p].readable
  /\ \E p \in PathSet(request) :
       fs[p].readable /\ ApplyParser(request.parser, fs[p].content).thrown
  /\ rawResp.kind = "throw"
  /\ apiResp.kind = "response" /\ apiResp.ok /\ apiResp.type = "dir"
  /\ "success" \in DOMAIN result

\* the API answer is a file envelope whose decoded content the parser accepts
ValidFilePayload(resp) ==
  /\ resp.kind = "response" /\ resp.ok /\ resp.json /\ resp.type = "file"
  /\ resp.content \in Base64Contents
  /\ ~ApplyParser(request.parser, Base64Decode(resp.content)).thrown

\* C7 (fallthrough): local and remote-raw failed and the API answered with
\* a valid base64 file payload: the result is a success with source
\* remote-api (the API provider's tag) and data the parsed decoded content.
C7_FallthroughToApi ==
  (Done /\ tier["local"] = "failed" /\ tier["remote-raw"] = "failed"
        /\ ValidFilePayload(apiResp)) =>
    /\ result.success
    /\ result.source = ProviderTag["remote-api"]
    /\ result.data =
         ApplyParser(request.parser, Base64Decode(apiResp.content)).value

\* C8 (synthetic guarantee): every live tier failed and a fallback was
\* supplied, empty or not: the result is a success with source synthetic
\* (the mock-data tag) and data the fallback itself.
C8_SyntheticGuarantee ==
  (Done /\ Known /\ LiveTiersFailed /\ request.mockData # Undefined) =>
    /\ result.success
    /\ result.source = ProviderTag["synthetic"]
    /\ result.data = request.mockData

\* C9 (chain exhaustion): every tier failed and no fallback was supplied:
\* success=false, data=null, source "error".
C9_ExhaustionShape ==
  (Done /\ Known /\ LiveTiersFailed /\ request.mockData = Undefined) =>
    /\ result.success = FALSE
    /\ result.data = Null
    /\ result.source = "error"

\* C10 (failure-reason aggregation): every tier failed and no fallback was
\* supplied: the error of the result is non-empty and contains the failure
\* reason of the remote-raw tier and that of the remote-api tier.
C10_ErrorAggregation ==
  (Done /\ Known /\ LiveTiersFailed /\ request.mockData = Undefined) =>
    /\ "error" \in DOMAIN result
    /\ result.error # <<>>
    /\ Contains(result.error, rawResult.error)
    /\ Contains(result.error, apiResult.error)

(***************************************************************************)
(* C11..C20                                                                *)
(***************************************************************************)

\* candidate i has been tried: existsSync was called on it
Tried(i) == \E k \in Calls("existsSync") : trace[k].arg = PossiblePaths[i]

\* candidate i was read and the parser threw on its content
LocalParseThrows(i) ==
  LET file == fs[PossiblePaths[i]] IN
  /\ Tried(i)
  /\ file.exists /\ file.readable
  /\ ApplyParser(request.parser, file.content).thrown

\* the raw fetch obtained a body and the parser threw on it
RawParseThrows ==
  /\ rawResp.kind = "response" /\ rawResp.ok
  /\ ApplyParser(request.parser, rawResp.body).thrown

\* the API fetch obtained a file payload and the parser threw on it
ApiParseThrows ==
  /\ apiResp.kind = "response" /\ apiResp.ok /\ apiResp.json
  /\ apiResp.type = "file"
  /\ ApplyParser(request.parser, Base64Decode(apiResp.content)).thrown

\* a fetch of url has been issued
Fetched(url) == \E k \in Calls("fetch") : trace[k].arg = url

\* C11 (parser exception = tier failure): loadAgentData never raises; a
\* local candidate whose content the parser rejects is passed over exactly
\* as an absent candidate is (the loop moves on, the result is not taken
\* from it); a raw body the parser rejects fails the remote-raw tier with
\* no data and the API fetch is issued; an API file payload the parser
\* rejects fails the remote-api tier with no data and the resolution goes
\* on to the synthetic tier.
C11_ParserExceptionFallsThrough ==
  /\ pc # "thrown"
  /\ Known =>
       \A i \in 1..Len(PossiblePaths) :
         LocalParseThrows(i) =>
           /\ idx > i
           /\ LocalAttempt(PossiblePaths[i], fs[PossiblePaths[i]], request.parser)
                = LocalAttempt(PossiblePaths[i],
                               [exists |-> FALSE, readable |-> FALSE,
                                content |-> ""], request.parser)
           /\ Done => result.source # PossiblePaths[i]
  /\ RawParseThrows =>
       /\ ~rawResult.success /\ rawResult.data = Null
       /\ tier["remote-raw"] = "failed"
       /\ tier["remote-api"] # "idle"
       /\ Fetched(ApiUrl(DayFolder, request.filename))
  /\ ApiParseThrows =>
       /\ ~apiResult.success /\ apiResult.data = Null
       /\ tier["remote-api"] = "failed"
       /\ tier["synthetic"] # "idle"
       /\ Done

\* the parser threw in all three tiers of one resolution, which returned
C11_Witness ==
  /\ Done
  /\ \E i \in 1..Len(PossiblePaths) : LocalParseThrows(i)
  /\ RawParseThrows
  /\ ApiParseThrows

\* candidate i exists and readFileSync returns its content
CanRead(i) ==
  LET file == fs[PossiblePaths[i]] IN file.exists /\ file.readable

FirstReadable == CHOOSE i \in 1..Len(PossiblePaths) :
                   CanRead(i) /\ \A j \in 1..(i - 1) : ~CanRead(j)

\* the file-system calls made so far, in order
FsCalls == SelectSeq(trace, LAMBDA c : c.op \in {"existsSync", "readFileSync"})

\* the loop over possiblePaths is over
LoopOver == pc \notin {"start", "local"}

\* the k-th candidate probed is the k-th of the list, each candidate is
\* probed at most once and read only right after it was probed
InListOrder ==
  LET probes == SelectSeq(trace, LAMBDA c : c.op = "existsSync") IN
  /\ Len(probes) <= Len(PossiblePaths)
  /\ \A k \in 1..Len(probes) : probes[k].arg = PossiblePaths[k]
  /\ \A k \in 1..Len(FsCalls) :
       FsCalls[k].op = "readFileSync" =>
         /\ k > 1
         /\ FsCalls[k - 1] = [op |-> "existsSync", arg |-> FsCalls[k].arg]

\* C12 as stated: the winner is the first candidate that exists and is read
C12_FirstReadableWins ==
  Known =>
    /\ InListOrder
    /\ (LoopOver /\ \E i \in 1..Len(PossiblePaths) : CanRead(i)) =>
         /\ result.source = PossiblePaths[FirstReadable]
         /\ \A j \in 1..Len(PossiblePaths) : Tried(j) <=> j <= FirstReadable
    /\ \A i \in 1..Len(PossiblePaths) :
         (Tried(i) /\ fs[PossiblePaths[i]].exists
            /\ ~fs[PossiblePaths[i]].readable) => idx > i /\ pc # "thrown"

\* C12 (local candidate order), amended: the candidates are tried in list
\* order; once the loop is over, the candidates tried are exactly those up
\* to the first one that exists, is read AND is parsed without exception;
\* that candidate's path is the result's source, a read error at a
\* candidate is swallowed and the loop moves on, and no candidate after the
\* winning one is touched. A candidate whose content the parser rejects
\* counts as a failed candidate and is not the winner.
C12_FirstParsedWins ==
  Known =>
    /\ InListOrder
    /\ (LoopOver /\ LocalCanSucceed) =>
         /\ result.source = PossiblePaths[FirstAnswering]
         /\ \A j \in 1..Len(PossiblePaths) : Tried(j) <=> j <= FirstAnswering
    /\ (LoopOver /\ ~LocalCanSucceed) =>
         /\ \A j \in 1..Len(PossiblePaths) : Tried(j)
         /\ Done => result.source \notin PathSet(request)
    /\ \A i \in 1..Len(PossiblePaths) :
         (Tried(i) /\ fs[PossiblePaths[i]].exists
            /\ ~fs[PossiblePaths[i]].readable) => idx > i /\ pc # "thrown"

\* the first candidate was read but the parser rejected it, the second won
C12_Witness ==
  /\ Known /\ Done
  /\ LocalParseThrows(1)
  /\ CanAnswer(2)
  /\ result.source = PossiblePaths[2]
  /\ Tried(1) /\ Tried(2)

\* how many calls op(arg) were made so far
CallCount(op, arg) ==
  Cardinality({k \in Calls(op) : trace[k].arg = arg})

\* C17 (no retry): within one resolution the registry is consulted once,
\* every candidate path is probed at most once and read at most once, the
\* raw URL is fetched at most once and the API URL at most once, so no more
\* than two fetches are issued, whatever failed; a tier that is over was
\* attempted by exactly the calls of that one attempt.
C17_NoRetry ==
  /\ Cardinality(Calls("getAgentConfig")) <= 1
  /\ \A path \in PathSet(request) :
       /\ CallCount("existsSync", path) <= 1
       /\ CallCount("readFileSync", path) <= 1
  /\ Known =>
       /\ CallCount("fetch", RawUrl(DayFolder, request.filename)) <= 1
       /\ CallCount("fetch", ApiUrl(DayFolder, request.filename)) <= 1
       /\ Cardinality(Calls("fetch")) <= 2
       /\ tier["remote-raw"] \in {"failed", "succeeded"} =>
            CallCount("fetch", RawUrl(DayFolder, request.filename)) = 1
       /\ tier["remote-api"] \in {"failed", "succeeded"} =>
            CallCount("fetch", ApiUrl(DayFolder, request.filename)) = 1
  /\ ~Known => Calls("fetch") = {} /\ Calls("existsSync") = {}

\* every live tier failed: a read error at each candidate, a network error
\* at both fetches, and the resolution is over
C17_Witness ==
  /\ Known /\ Done
  /\ \A i \in 1..Len(PossiblePaths) :
       /\ fs[PossiblePaths[i]].exists /\ ~fs[PossiblePaths[i]].readable
       /\ CallCount("readFileSync", PossiblePaths[i]) = 1
  /\ rawResp.kind = "throw"
  /\ apiResp.kind = "throw"
  /\ Cardinality(Calls("fetch")) = 2

\* fetchFromGitHubRaw has returned
RawAnswered == rawResp # NoResponse

\* what C18 says of a response that is not OK, of a network exception and
\* of the URL, common to the statement and its amendment
RawFailureAndUrl ==
  /\ CallCount("fetch", RawUrl(DayFolder, request.filename)) = 1
  /\ rawResult.url = RawUrl(DayFolder, request.filename)
  /\ rawResult.source = "github-raw"
  /\ (rawResp.kind = "response" /\ ~rawResp.ok) =>
       /\ rawResult.success = FALSE /\ rawResult.data = Null
       /\ Contains(rawResult.error, <<rawResp.status>>)
       /\ Contains(rawResult.error, <<rawResp.statusText>>)
  /\ rawResp.kind = "throw" =>
       /\ rawResult.success = FALSE /\ rawResult.data = Null
       /\ Contains(rawResult.error, <<rawResp.message>>)

\* C18 as stated: every OK response yields success=true with the parsed body
C18_RawOutcome ==
  RawAnswered =>
    /\ RawFailureAndUrl
    /\ (rawResp.kind = "response" /\ rawResp.ok) =>
         /\ rawResult.success = TRUE
         /\ rawResult.data = ApplyParser(request.parser, rawResp.body).value

\* C18 (remote-raw outcome), amended: fetchFromGitHubRaw issues one fetch of
\* the URL built from the day folder and the file name; a status that is
\* not OK or a network exception yields success=false, data=null and an
\* error carrying the status or the exception text; an OK response whose
\* body the parser accepts yields success=true with data the parsed body;
\* an OK response whose body the parser rejects yields success=false,
\* data=null and the parser's exception text; every result carries the URL.
C18_RawOutcomeParsed ==
  RawAnswered =>
    /\ RawFailureAndUrl
    /\ (rawResp.kind = "response" /\ rawResp.ok) =>
         LET parsed == ApplyParser(request.parser, rawResp.body) IN
         IF parsed.thrown
         THEN /\ rawResult.success = FALSE /\ rawResult.data = Null
              /\ rawResult.error = <<parsed.message>>
         ELSE /\ rawResult.success = TRUE
              /\ rawResult.data = parsed.value
              /\ "error" \notin DOMAIN rawResult

\* the raw fetch was answered 200 OK with a body the parser rejects
C18_Witness ==
  /\ RawAnswered
  /\ RawParseThrows
  /\ rawResult.success = FALSE
  /\ rawResult.url = RawUrl(DayFolder, request.filename)

\* a token is configured: the argument is a non-empty string
TokenConfigured(githubToken) == githubToken.t = "string" /\ githubToken.n > 0

\* C19 (remote-api outcome): fetchFromGitHubAPI returns success=true only
\* when the answer's status is OK and the JSON envelope's type is "file";
\* a status that is not OK, or an envelope that is not a file, yields
\* success=false with data=null; the request carries an Authorization
\* header ("token <value>") if and only if a token is configured.
C19_ApiOutcome ==
  /\ apiPc \in {"fetching", "done"} =>
       /\ apiSent.url = ApiUrl(apiArgs.agentDayFolder, apiArgs.filename)
       /\ "Authorization" \in DOMAIN apiSent.headers
            <=> TokenConfigured(apiArgs.githubToken)
       /\ "Authorization" \in DOMAIN apiSent.headers =>
            apiSent.headers.Authorization = "token " \o apiArgs.githubToken.s
  /\ apiPc = "done" =>
       /\ apiOut.success =>
            /\ apiAnswer.kind = "response" /\ apiAnswer.ok
            /\ apiAnswer.json /\ apiAnswer.type = "file"
       /\ (apiAnswer.kind = "response" /\ ~apiAnswer.ok) =>
            apiOut.success = FALSE /\ apiOut.data = Null
       /\ (apiAnswer.kind = "response" /\ apiAnswer.ok /\ apiAnswer.json
             /\ apiAnswer.type # "file") =>
            apiOut.success = FALSE /\ apiOut.data = Null
       /\ apiOut.source = "github-api"

\* a call with a token configured, answered by a file envelope, succeeded
C19_Witness ==
  /\ apiPc = "done"
  /\ TokenConfigured(apiArgs.githubToken)
  /\ "Authorization" \in DOMAIN apiSent.headers
  /\ apiAnswer.type = "file"
  /\ apiOut.success = TRUE

\* the cells of the lines of the text the parsers see: line 1 is the header
CsvCells(text) ==
  LET lines == SplitLines(Trim(text)) IN
  [l \in 1..Len(lines) |-> Split(lines[l], ",")]

\* obj[k] for a property the object has
Lookup(obj, k) == obj[CHOOSE i \in 1..Len(obj) : obj[i].k = k].v

HasProperty(obj, k) == \E i \in 1..Len(obj) : obj[i].k = k

\* one row per line after the header line, in order, each with the trimmed
\* header cells as its keys; columns `cols` of every row hold the trimmed
\* cell at their own index, the empty string when the line is short
RowsMatch(out, text, cols) ==
  LET cells == CsvCells(text)
      name == [i \in 1..Len(cells[1]) |-> Trim(cells[1][i])]
  IN  /\ Len(out) = Len(cells) - 1
      /\ \A r \in 1..Len(out) :
           /\ {out[r][p].k : p \in 1..Len(out[r])}
                = {name[i] : i \in 1..Len(name)}
           /\ \A i \in cols :
                /\ HasProperty(out[r], name[i])
                /\ Lookup(out[r], name[i])
                     = IF i <= Len(cells[r + 1]) THEN Trim(cells[r + 1][i])
                       ELSE <<>>

\* header "a,b", data line "1,2": exactly one row {a: "1", b: "2"}
TableRoundTrip(out, text) ==
  text = <<"a", ",", "b", "\n", "1", ",", "2">> =>
    out = <<  <<[k |-> <<"a">>, v |-> <<"1">>],
              [k |-> <<"b">>, v |-> <<"2">>]>>  >>

AllColumns(text) == 1..Len(CsvCells(text)[1])

\* the columns whose trimmed name no later column bears
LastOfName(text) ==
  LET header == CsvCells(text)[1] IN
  {i \in 1..Len(header) :
     \A j \in 1..Len(header) : j > i => Trim(header[j]) # Trim(header[i])}

\* C20 as stated: every header cell is mapped to the cell of its own column
C20_TableParser ==
  /\ ghRows # NoResult =>
       /\ RowsMatch(ghRows.value, csvText, AllColumns(csvText))
       /\ TableRoundTrip(ghRows.value, csvText)
  /\ localRows # NoResult =>
       /\ RowsMatch(localRows.value, csvText, AllColumns(csvText))
       /\ TableRoundTrip(localRows.value, csvText)

\* C20 (delimited-table parser), amended: both parsers return one row per
\* line after the header line, in order; the keys of a row are the trimmed
\* header cells; a row maps each trimmed header cell to the trimmed cell at
\* the index of the last column bearing that name (the empty string when
\* the line has fewer cells), which is the cell of its own column whenever
\* the header names are distinct; "a,b" / "1,2" yields exactly one row
\* {a: "1", b: "2"}.
C20_TableParserLastColumnWins ==
  /\ ghRows # NoResult =>
       /\ RowsMatch(ghRows.value, csvText, LastOfName(csvText))
       /\ TableRoundTrip(ghRows.value, csvText)
  /\ localRows # NoResult =>
       /\ RowsMatch(localRows.value, csvText, LastOfName(csvText))
       /\ TableRoundTrip(localRows.value, csvText)

\* both parsers were applied to a text whose header names one column twice
\* and whose data line is shorter than the next one is long
C20_Witness ==
  /\ ghRows # NoResult /\ localRows # NoResult
  /\ LastOfName(csvText) # AllColumns(csvText)
  /\ Len(ghRows.value) = 2
  /\ Len(CsvCells(csvText)[2]) < Len(CsvCells(csvText)[1])
  /\ \E p \in 1..Len(csvText) : csvText[p] = " "

\* the resolution of a file waits for a fetch that is never answered
BlockedOnHungFetch(filename) ==
  \/ bPc[filename] = "fetchRaw" /\ bEnv[filename].raw = "hang"
  \/ bPc[filename] = "fetchApi" /\ bEnv[filename].api = "hang"

\* C13 (a hung fetch blocks its own resolution only): whenever the
\* resolution of one file waits for a fetch that never completes, the
\* resolution of every other file that is not over, and is not itself
\* waiting for such a fetch, can take its next step; this is to hold for
\* concurrent requests and for the per-file resolutions of
\* getAgentDemoData and getAgentDemoDataFromGitHub alike.
C13_HungFetchBlocksOnlyItself ==
  \A g \in FileSet : \A f \in FileSet \ {g} :
    (BlockedOnHungFetch(g) /\ bPc[f] # "done" /\ ~BlockedOnHungFetch(f))
      => ENABLED FileStep(f)

\* what resolving one file on its own yields under the fates of its own
\* providers: the entry kept by the caller, or Hang when the chain reaches
\* a fetch that is never answered
AloneOutcome(mode, agentId, filename, fate) ==
  LET parser == BatchParser(mode, filename)
      dayFolder == AGENT_REGISTRY[agentId].dayFolder
      local == IF mode = "github" THEN [kind |-> "continue"]
               ELSE LocalLoop(getAgentDataPath(agentId, filename),
                              FilesOf(agentId, filename, fate), parser, 1)
      rawRes == fetchFromGitHubRaw(RawAnswerOf(filename, fate), parser,
                                   RawUrl(dayFolder, filename))
      apiRes == fetchFromGitHubAPI(ApiAnswerOf(filename, fate), parser,
                                   ApiUrl(dayFolder, filename))
  IN  IF local.kind = "return"
      THEN [kind |-> "result", entry |-> Entry(mode, local.result)]
      ELSE IF fate.raw = "hang" THEN Hang
      ELSE IF rawRes.success
      THEN [kind |-> "result",
            entry |-> Entry(mode, FromGitHub(mode, agentId, filename, rawRes))]
      ELSE IF fate.api = "hang" THEN Hang
      ELSE [kind |-> "result",
            entry |-> Entry(mode,
                        FromGitHub(mode, agentId, filename,
                          IF apiRes.success THEN apiRes
                          ELSE GitHubMockOrFailure(rawRes, apiRes,
                                 BatchMock(mode, filename))))]

\* C14 (independence): under every interleaving of the resolutions of the
\* files of one agent, the map holds an entry exactly for the files whose
\* resolution is over, and the entry of each equals what resolving that
\* file alone yields under the fates of its own providers, whatever
\* happened to the chains of the other files.
C14_Independence ==
  /\ DOMAIN bOut = {f \in FileSet : bPc[f] = "done"}
  /\ \A f \in DOMAIN bOut :
       /\ AloneOutcome(bMode, bAgent, f, bEnv[f]).kind = "result"
       /\ bOut[f] = AloneOutcome(bMode, bAgent, f, bEnv[f]).entry

\* two concurrent requests are over: the chain of one file failed in every
\* tier, the other file was served by the remote-api tier
C14_Witness ==
  /\ bMode = "requests"
  /\ Len(DataFiles) = 2
  /\ \A f \in FileSet : bPc[f] = "done"
  /\ bOut[DataFiles[1]].success = FALSE
  /\ bOut[DataFiles[2]].success = TRUE
  /\ bOut[DataFiles[2]].source = "github-github-api"

\* every declared file has been resolved: the batch function has returned
BatchReturned == \A f \in FileSet : bPc[f] = "done"

RouteNames == {"data", "github-file"}

\* the agentId and filename of a request: a registered agent or not, a
\* file the agent declares or not
RouteAgents == BatchAgents \cup {"unknown-agent"}

RouteFiles == {"transcript.txt", "zendesk_tickets.json", "router_policy.yaml"}

\* searchParams.get('format') || 'json', searchParams.get('method') || 'raw'
RouteFormats == {"json", "raw"}

RouteMethods == {"raw", "api"}

RouteRequests ==
  [route : RouteNames, agentId : RouteAgents, filename : RouteFiles,
   format : RouteFormats, method : RouteMethods, fate : ProviderFates]

\* agent.dataFiles.includes(filename)
Declares(agentId, filename) ==
  \E i \in 1..Len(AGENT_REGISTRY[agentId].dataFiles) :
    AGENT_REGISTRY[agentId].dataFiles[i] = filename

\* the request passes the two validations of the handlers
Validated(req) ==
  IsKnownAgent(req.agentId) /\ Declares(req.agentId, req.filename)

\* NextResponse.json(body, { status }) and new Response(body, { headers })
JsonResponse(status, body) == [kind |-> "json", status |-> status, body |-> body]

\* typeof result.data === 'string' ? result.data : JSON.stringify(result.data)
RawBody(data) ==
  IF data.t = "string" THEN data ELSE [t |-> "json-text", of |-> data]

RawResponse(data, source) ==
  [kind |-> "raw", status |-> 200, body |-> RawBody(data),
   headers |-> [XDataSource |-> source]]

\* the answer to a request that fails a validation (lines 25-44, 438-457)
RejectedResponse == JsonResponse(404, [error |-> "not found"])

\* the status both handlers give a failed result (lines 66-74, 476-491)
FailureStatus(route, res) == 404

\* what a handler answers to the result it received (lines 66-98, 476-531)
RouteAnswer(req, res) ==
  IF ~res.success
  THEN JsonResponse(FailureStatus(req.route, res),
                    [error |-> res.error, source |-> res.source])
  ELSE IF req.format = "raw"
  THEN RawResponse(res.data, res.source)
  ELSE JsonResponse(200, [filename |-> req.filename, data |-> res.data,
                          source |-> res.source])

\* what the load function of the data route returns (lines 46-64):
\* loadJSONData for json, loadTextData otherwise, without mock data
DataRouteLoad(req) ==
  AloneOutcome("requests", req.agentId, req.filename, req.fate)

\* what the fetch of the GitHub file route returns (lines 459-474):
\* parseJSON for json, no parser otherwise, the method picks the fetch
FileRouteFetch(req) ==
  LET dayFolder == AGENT_REGISTRY[req.agentId].dayFolder
      parser == BatchParser("github", req.filename)
  IN  IF req.method = "api"
      THEN IF req.fate.api = "hang" THEN Hang
           ELSE [kind |-> "result",
                 entry |-> fetchFromGitHubAPI(ApiAnswerOf(req.filename, req.fate),
                             parser, ApiUrl(dayFolder, req.filename))]
      ELSE IF req.fate.raw = "hang" THEN Hang
           ELSE [kind |-> "result",
                 entry |-> fetchFromGitHubRaw(RawAnswerOf(req.filename, req.fate),
                             parser, RawUrl(dayFolder, req.filename))]

RouteInit ==
  /\ ResolutionIdle
  /\ ApiIdle
  /\ CsvIdle
  /\ BatchIdle
  /\ InvoiceIdle
  /\ SeoIdle
  /\ rReq \in RouteRequests
  /\ rResult = NoResult
  /\ rResponse = NoResponse

\* a request that fails a validation is answered at once
RouteRejects ==
  /\ rResponse = NoResponse
  /\ ~Validated(rReq)
  /\ rResponse' = RejectedResponse
  /\ UNCHANGED <<rReq, rResult>>
  /\ UNCHANGED <<resolutionVars, apiVars, csvVars, batchVars, invoiceVars, seoVars>>

\* GET ?file= of the data route: the load returns and the handler answers
DataRouteGET ==
  /\ rResponse = NoResponse
  /\ rReq.route = "data"
  /\ Validated(rReq)
  /\ DataRouteLoad(rReq).kind = "result"
  /\ rResult' = DataRouteLoad(rReq).entry
  /\ rResponse' = RouteAnswer(rReq, DataRouteLoad(rReq).entry)
  /\ UNCHANGED rReq
  /\ UNCHANGED <<resolutionVars, apiVars, csvVars, batchVars, invoiceVars, seoVars>>

\* GET of the GitHub file route: the fetch returns and the handler answers
FileRouteGET ==
  /\ rResponse = NoResponse
  /\ rReq.route = "github-file"
  /\ Validated(rReq)
  /\ FileRouteFetch(rReq).kind = "result"
  /\ rResult' = FileRouteFetch(rReq).entry
  /\ rResponse' = RouteAnswer(rReq, FileRouteFetch(rReq).entry)
  /\ UNCHANGED rReq
  /\ UNCHANGED <<resolutionVars, apiVars, csvVars, batchVars, invoiceVars, seoVars>>

RouteNext == RouteRejects \/ DataRouteGET \/ FileRouteGET

RouteSpec == RouteInit /\ [][RouteNext]_vars

\* the handler answered a result it received
Answered == rResult # NoResult /\ rResponse # NoResponse

\* C16 (route mapping): a handler that receives a failed result answers
\* 404 when the result's source is "not-found" and 500 for every other
\* failed result; a successful result is answered with a response that
\* carries its data and its source.
C16_RouteMapping ==
  Answered =>
    IF ~rResult.success
    THEN rResponse.status = IF rResult.source = "not-found" THEN 404 ELSE 500
    ELSE /\ rResponse.status = 200
         /\ rResponse.kind = "json" =>
              /\ rResponse.body.data = rResult.data
              /\ rResponse.body.source = rResult.source
         /\ rResponse.kind = "raw" =>
              /\ rResponse.body = RawBody(rResult.data)
              /\ rResponse.headers.XDataSource = rResult.source

(***************************************************************************)
(* C21..C30                                                                *)
(***************************************************************************)
\* loadTextData / loadXMLData: loadAgentData is called without a parser
NoParser == request.parser = "undefined"

\* the first candidate path holds a readable file
FirstPathReadable ==
  /\ Known
  /\ fs[PossiblePaths[1]].exists
  /\ fs[PossiblePaths[1]].readable

\* C21 (passthrough): without a parser, the data of a successful result of
\* the local, remote-raw or remote-api tier is the content that tier
\* obtained, unchanged: the text of the file at the path named by source,
\* the body of the raw response, the decoded content of the API payload.
\* A file present at the first candidate path gives source = that path
\* and data = the file's exact text.
C21_Passthrough ==
  (Done /\ NoParser) =>
    /\ tier["local"] = "succeeded" =>
         /\ result.success
         /\ \E i \in 1..Len(PossiblePaths) :
              /\ result.source = PossiblePaths[i]
              /\ result.data = Str(fs[PossiblePaths[i]].content)
    /\ tier["remote-raw"] = "succeeded" =>
         /\ result.success
         /\ result.data = Str(rawResp.body)
    /\ tier["remote-api"] = "succeeded" =>
         /\ result.success
         /\ result.data = Str(Base64Decode(apiResp.content))
    /\ FirstPathReadable =>
         /\ result.success
         /\ result.source = PossiblePaths[1]
         /\ result.data = Str(fs[PossiblePaths[1]].content)

\* a text that is no JSON, read from the first candidate path, is the data
C21_Witness ==
  /\ Done
  /\ NoParser
  /\ FirstPathReadable
  /\ fs[PossiblePaths[1]].content = "{bad"
  /\ result.data = Str("{bad")

\* both remote tiers were tried and failed
RemoteFailed == tier["remote-raw"] = "failed" /\ tier["remote-api"] = "failed"

\* C25 (which mock branch): for a known agent whose local and remote tiers
\* failed, a mock value other than undefined is substituted by the remote
\* loader and loadAgentData returns it with source "github-mock-data"; no
\* result has source "mock-data"; a successful remote tier is reported as
\* "github-github-raw" or "github-github-api".
C25_MockBranch ==
  Done =>
    /\ (Known /\ tier["local"] = "failed" /\ RemoteFailed
          /\ request.mockData # Undefined) =>
         /\ result.success
         /\ result.source = "github-mock-data"
         /\ result.data = request.mockData
    /\ result.source # "mock-data"
    /\ tier["remote-raw"] = "succeeded" => result.source = "github-github-raw"
    /\ tier["remote-api"] = "succeeded" => result.source = "github-github-api"

\* a null mock value, falsy but not undefined, is returned as mock data
C25_Witness ==
  /\ Done
  /\ Known
  /\ RemoteFailed
  /\ request.mockData = Null
  /\ result.source = "github-mock-data"

\* a text with at least one part that is not empty
NonEmptyText(text) == \E k \in 1..Len(text) : text[k] # ""

\* C27 (error field): a returned result has no error field when success is
\* true and a non-empty error text when success is false; the error the
\* remote loader attaches to its mock-data success does not reach the caller.
C27_ErrorIffFailure ==
  Done =>
    /\ result.success => "error" \notin DOMAIN result
    /\ ~result.success =>
         /\ "error" \in DOMAIN result
         /\ NonEmptyText(result.error)

\* the remote loader answered with mock data, the result carries no error
C27_Witness ==
  /\ Done
  /\ RemoteFailed
  /\ result.success
  /\ result.source = "github-mock-data"
  /\ "error" \notin DOMAIN result

\* the URLs passed to fetch, in call order
FetchedUrls ==
  LET f == SelectSeq(trace, LAMBDA c : c.op = "fetch") IN
  [k \in 1..Len(f) |-> f[k].arg]

\* C28 (provenance URLs): a result carries githubUrls exactly when the agent
\* is known and the local tier failed; the raw URL it carries is the URL
\* the remote-raw tier fetched and the api URL the one the remote-api tier
\* fetched.
C28_ProvenanceUrls ==
  Done =>
    /\ "githubUrls" \in DOMAIN result <=> (Known /\ tier["local"] = "failed")
    /\ "githubUrls" \in DOMAIN result =>
         /\ Len(FetchedUrls) \in {1, 2}
         /\ FetchedUrls[1] = result.githubUrls.raw
         /\ Len(FetchedUrls) = 2 => FetchedUrls[2] = result.githubUrls.api
    /\ "githubUrls" \notin DOMAIN result => FetchedUrls = <<>>

\* both URLs were fetched and the not-found result carries them
C28_Witness ==
  /\ Done
  /\ result.source = "not-found"
  /\ Len(FetchedUrls) = 2
  /\ FetchedUrls[2] = result.githubUrls.api

\* both parsers were applied to the text
BothParsed == ghRows # NoResult /\ localRows # NoResult

\* C29 (the two table parsers agree): applied to the same text, the
\* csvParser of loadCSVData and parseCSV return the same sequence of rows,
\* each with the same keys in the same order and the same values.
C29_ParsersAgree == BothParsed => ghRows = localRows

\* a text with padded cells and CR LF line breaks, parsed by both into
\* at least one row
C29_Witness ==
  /\ BothParsed
  /\ csvText[1] = " "
  /\ \E k \in 1..Len(csvText) : csvText[k] = "\r"
  /\ Len(localRows.value) >= 1
  /\ ghRows.value = localRows.value

\* the calls made stay within one probe and one read per candidate path,
\* one fetch of the raw URL and one of the API URL
WithinBudget ==
  /\ \A path \in PathSet(request) :
       /\ CallCount("existsSync", path) <= 1
       /\ CallCount("readFileSync", path) <= 1
  /\ Len(FetchedUrls) <= 2
  /\ \A k \in 1..Len(FetchedUrls) : \A j \in 1..Len(FetchedUrls) :
       FetchedUrls[k] = FetchedUrls[j] => k = j

\* C30 (termination): when every issued fetch is answered, loadAgentData
\* returns a result at some time, and has then made at most one existence
\* check and one read per candidate path, one raw fetch and one API fetch.
C30_Termination == <>(Done /\ result # NoResult /\ WithinBudget)

\* the longest resolution: every candidate path probed, both fetches
\* issued, and the result returned
C30_Witness ==
  /\ Done
  /\ Known
  /\ WithinBudget
  /\ \A i \in 1..Len(PossiblePaths) : Tried(i)
  /\ Len(FetchedUrls) = 2

MaxInvoices == 6

\* MockDataGenerators.invoices(20)
InvoiceMockCount == 20

Text(chars) == [t |-> "string", chars |-> chars]

Number(n) == [t |-> "number", n |-> n]

NaN == [t |-> "NaN", n |-> 0]

KeyId == <<"i", "d">>

KeyInvoiceId == <<"i", "n", "v", "o", "i", "c", "e", "_", "i", "d">>

KeyAmount == <<"a", "m", "o", "u", "n", "t">>

KeyVendor == <<"v", "e", "n", "d", "o", "r">>

KeyStatus == <<"s", "t", "a", "t", "u", "s">>

KeyDate == <<"d", "a", "t", "e">>

\* s.toLowerCase()
ToLowerCase(s) ==
  LET upper == <<"A", "B", "C", "D", "E", "F", "G", "H", "I", "J", "K", "L", "M",
                 "N", "O", "P", "Q", "R", "S", "T", "U", "V", "W", "X", "Y", "Z">>
      lower == <<"a", "b", "c", "d", "e", "f", "g", "h", "i", "j", "k", "l", "m",
                 "n", "o", "p", "q", "r", "s", "t", "u", "v", "w", "x", "y", "z">>
  IN  [i \in 1..Len(s) |->
         IF \E k \in 1..26 : upper[k] = s[i]
         THEN lower[CHOOSE k \in 1..26 : upper[k] = s[i]]
         ELSE s[i]]

\* s.includes(sub)
Includes(s, sub) ==
  \E i \in 1..(Len(s) - Len(sub) + 1) : SubSeq(s, i, i + Len(sub) - 1) = sub

DigitChars == <<"0", "1", "2", "3", "4", "5", "6", "7", "8", "9">>

IsDigit(c) == \E d \in 1..10 : DigitChars[d] = c

DigitValue(c) == (CHOOSE d \in 1..10 : DigitChars[d] = c) - 1

\* the number written by the digits chars[1..n]
RECURSIVE DigitsValue(_, _)
DigitsValue(chars, n) ==
  IF n = 0 THEN 0
  ELSE 10 * DigitsValue(chars, n - 1) + DigitValue(chars[n])

\* parseFloat(v): a number is itself; of a string the longest prefix of
\* digits after leading white space counts, and without one it is NaN;
\* undefined gives NaN
parseFloat(v) ==
  CASE v.t = "number" -> v
    [] v.t = "string" ->
         LET s == v.chars
             lead == {i \in 1..Len(s) : \A j \in 1..i : IsSpace(s[j])}
             from == Cardinality(lead) + 1
             run == {i \in from..Len(s) : \A j \in from..i : IsDigit(s[j])}
         IN  IF run = {} THEN NaN
             ELSE Number(DigitsValue(SubSeq(s, from, from + Cardinality(run) - 1),
                                     Cardinality(run)))
    [] OTHER -> NaN

\* ToBoolean of a row value: NaN, 0, '' and undefined are falsy
TruthyValue(v) ==
  CASE v.t = "number" -> v.n # 0
    [] v.t = "string" -> Len(v.chars) > 0
    [] OTHER -> FALSE

\* obj[key], undefined when the object has no such property
Property(obj, key) ==
  IF \E i \in 1..Len(obj) : obj[i].k = key
  THEN obj[CHOOSE i \in 1..Len(obj) : obj[i].k = key].v
  ELSE Undefined

\* the rows a CSV parser returned, as the array handed on: every value is
\* a string
RowsOf(parsed) ==
  [r \in 1..Len(parsed) |->
     [i \in 1..Len(parsed[r]) |->
        [k |-> parsed[r][i].k, v |-> Text(parsed[r][i].v)]]]

ArrayOf(rows) == [t |-> "array", s |-> "rows", n |-> Len(rows), rows |-> rows]

\* the amounts Math.floor(Math.random() * 50000) + 1000 can give the
\* generated rows: all smallest, all largest, and mixtures
MockDraws ==
  {[i \in 1..InvoiceMockCount |-> 1000],
   [i \in 1..InvoiceMockCount |-> 50999],
   [i \in 1..InvoiceMockCount |-> IF i % 2 = 0 THEN 50999 ELSE 1000],
   [i \in 1..InvoiceMockCount |-> 1000 + i],
   [i \in 1..InvoiceMockCount |-> IF i = InvoiceMockCount THEN 50999 ELSE 1000 + (i % 3)]}

\* MockDataGenerators.invoices(count) (data-access.ts:179-192) under a draw
MockInvoices(count, draw) ==
  [i \in 1..count |->
     <<[k |-> KeyInvoiceId, v |-> Text(<<"INV-", i>>)],
       [k |-> KeyVendor, v |-> Text(<<"vendor", (i - 1) % 7>>)],
       [k |-> KeyAmount, v |-> Number(draw[i])],
       [k |-> KeyDate, v |-> Text(<<"2024-01-01">>)],
       [k |-> KeyStatus, v |-> Text(<<"status", (i - 1) % 3>>)],
       [k |-> <<"i", "b", "a", "n">>, v |-> Text(<<"GB33BUKB20201555555555">>)],
       [k |-> <<"c", "r", "e", "a", "t", "e", "d", "_", "a", "t", "_", "u", "t",
                "c">>,
        v |-> Text(<<"2024-01-01T00:00:00.000Z">>)]>>]

\* header lines of a generated invoices.csv: an amount column, one in
\* capitals, none
InvoiceHeaders ==
  {<<KeyId, KeyAmount>>, <<KeyId, <<"A", "M", "O", "U", "N", "T">>>>,
   <<KeyId, <<"s", "u", "m">>>>}

\* the amount cell of a data line: two numbers and a text that is none
AmountCells == {<<"9">>, <<"1", "2">>, <<"x">>}

\* the text of invoices.csv with header line h and data lines
\* "<row number>,<amount cell>"
InvoiceTextOf(h, cells) ==
  CsvTextOf(h, [r \in 1..Len(cells) |-> <<<<DigitChars[r + 1]>>, cells[r]>>],
            [eol |-> <<"\n">>, pad |-> <<>>])

\* the amount columns of up to MaxInvoices data lines; the cell that is
\* no number stands in the first line if anywhere
AmountColumns ==
  {cells \in UNION {[1..n -> AmountCells] : n \in 0..MaxInvoices} :
     \A r \in 2..Len(cells) : cells[r] # <<"x">>}

\* the texts of invoices.csv: every header line, or the usual one
InvoiceTexts ==
  {InvoiceTextOf(h, cells) : h \in InvoiceHeaders, cells \in AmountColumns}

UsualInvoiceTexts ==
  {InvoiceTextOf(<<KeyId, KeyAmount>>, cells) : cells \in AmountColumns}

\* where invoices.csv is found: at candidate path localAt (0: nowhere), at
\* its raw URL, through the contents API, or nowhere; the text it holds
\* (every header line is tried at the first path); the draw of the mock
\* generator
InvoiceEnvs ==
  {[localAt |-> 1, raw |-> "404", api |-> "403", text |-> t,
    draw |-> [i \in 1..InvoiceMockCount |-> 1000]] : t \in InvoiceTexts}
  \cup {[localAt |-> l, raw |-> "404", api |-> "403", text |-> t,
         draw |-> [i \in 1..InvoiceMockCount |-> 1000]] :
          l \in 2..MaxPaths, t \in UsualInvoiceTexts}
  \cup {[localAt |-> 0, raw |-> "ok", api |-> "403", text |-> t,
         draw |-> [i \in 1..InvoiceMockCount |-> 1000]] :
          t \in UsualInvoiceTexts}
  \cup {[localAt |-> 0, raw |-> r, api |-> "file", text |-> t,
         draw |-> [i \in 1..InvoiceMockCount |-> 1000]] :
          r \in {"404", "throw"}, t \in UsualInvoiceTexts}
  \cup {[localAt |-> 0, raw |-> r, api |-> "403", text |-> <<>>, draw |-> d] :
          r \in {"404", "throw"}, d \in MockDraws}

\* fetchFromGitHubRaw(agentDayFolder, 'invoices.csv', csvParser)
InvoiceRawResult(env, rawUrl) ==
  CASE env.raw = "ok" ->
         [data |-> ArrayOf(RowsOf(csvParser(env.text))), source |-> "github-raw",
          success |-> TRUE, url |-> rawUrl]
    [] env.raw = "404" ->
         fetchFromGitHubRaw(
           [kind |-> "response", ok |-> FALSE, status |-> "404",
            statusText |-> "Not Found", body |-> "", message |-> ""],
           "undefined", rawUrl)
    [] OTHER ->
         fetchFromGitHubRaw(
           [kind |-> "throw", ok |-> FALSE, status |-> "", statusText |-> "",
            body |-> "", message |-> "fetch failed"],
           "undefined", rawUrl)

\* fetchFromGitHubAPI(agentDayFolder, 'invoices.csv', csvParser); the
\* payload's content stands for the text it encodes
InvoiceApiResult(env, apiUrl) ==
  IF env.api = "file"
  THEN [data |-> ArrayOf(RowsOf(csvParser(env.text))), source |-> "github-api",
        success |-> TRUE, url |-> apiUrl]
  ELSE fetchFromGitHubAPI(
         [kind |-> "response", ok |-> FALSE, status |-> "403",
          statusText |-> "rate limit exceeded", json |-> FALSE, type |-> "",
          content |-> "", message |-> ""],
         "undefined", apiUrl)

\* loadCSVData('invoice-anomalies', 'invoices.csv', mockData): loadAgentData
\* with the csvParser
loadCSVData(agentId, filename, mockData, env) ==
  LET paths == getAgentDataPath(agentId, filename)
      dayFolder == AGENT_REGISTRY[agentId].dayFolder
      rawRes == InvoiceRawResult(env, RawUrl(dayFolder, filename))
      apiRes == InvoiceApiResult(env, ApiUrl(dayFolder, filename))
      githubResult == IF rawRes.success THEN rawRes
                      ELSE IF apiRes.success THEN apiRes
                      ELSE GitHubMockOrFailure(rawRes, apiRes, mockData)
  IN  IF env.localAt > 0
      THEN [data |-> ArrayOf(RowsOf(csvParser(env.text))),
            source |-> paths[env.localAt], success |-> TRUE]
      ELSE AfterGitHub(githubResult, agentId, filename, mockData,
                       generateGitHubUrls(dayFolder, filename))

\* Object.keys(invoices[0] || {}).find(key =>
\*   key.toLowerCase().includes('amount')): the index of the key, 0 if none
AmountFieldIndex(invoices) ==
  IF Len(invoices) = 0 THEN 0
  ELSE LET hits == {i \in 1..Len(invoices[1]) :
                      Includes(ToLowerCase(invoices[1][i].k), KeyAmount)}
       IN  IF hits = {} THEN 0 ELSE CHOOSE i \in hits : \A j \in hits : i <= j

\* a || b || 'Unknown' on row values
FirstTruthy(a, b) ==
  IF TruthyValue(a) THEN a ELSE IF TruthyValue(b) THEN b
  ELSE Text(<<"Unknown">>)

\* the object the map callback builds of one invoice (lines 133-139);
\* parseFloat(...) || 0 turns NaN into 0
InvoiceItem(invoice, amountField) ==
  LET parsed == parseFloat(Property(invoice, amountField)) IN
  [id |-> FirstTruthy(Property(invoice, KeyInvoiceId), Property(invoice, KeyId)),
   amount |-> IF parsed.t = "number" THEN parsed.n ELSE 0,
   vendor |-> FirstTruthy(Property(invoice, KeyVendor), Undefined),
   status |-> FirstTruthy(Property(invoice, KeyStatus), Undefined),
   date |-> FirstTruthy(Property(invoice, KeyDate), Undefined)]

\* where Array.prototype.sort((a, b) => b.amount - a.amount) puts item:
\* behind every item of the sorted list whose amount is not smaller
InsertByAmount(sorted, item) ==
  LET ahead == Cardinality({i \in 1..Len(sorted) : sorted[i].amount >= item.amount})
  IN  SubSeq(sorted, 1, ahead) \o <<item>> \o SubSeq(sorted, ahead + 1, Len(sorted))

\* variant: the items are sorted by growing amount
RECURSIVE SortAscending(_)
SortAscending(items) ==
  IF Len(items) = 0 THEN <<>>
  ELSE LET rest == SortAscending(SubSeq(items, 1, Len(items) - 1))
           item == items[Len(items)]
           ahead == Cardinality({i \in 1..Len(rest) : rest[i].amount <= item.amount})
       IN  SubSeq(rest, 1, ahead) \o <<item>> \o SubSeq(rest, ahead + 1, Len(rest))

\* items.sort((a, b) => b.amount - a.amount): stable, largest amount first
RECURSIVE SortByAmount(_)
SortByAmount(items) ==
  IF Len(items) = 0 THEN <<>>
  ELSE InsertByAmount(SortByAmount(SubSeq(items, 1, Len(items) - 1)),
                      items[Len(items)])

\* the message of the response (lines 151-153)
InvoiceMessage(source) ==
  IF source = "mock-data" THEN "Using mock data - no invoice file found"
  ELSE "Invoice data processed successfully"

\* what the route answers to the result of loadCSVData (lines 112-171)
InvoiceAnswer(res) ==
  IF ~res.success
  THEN [status |-> 500, error |-> res.error, source |-> res.source]
  ELSE LET invoices == res.data.rows
           at == AmountFieldIndex(invoices)
       IN  IF at = 0
           THEN [status |-> 400,
                 error |-> "Amount column not found in invoice data",
                 source |-> res.source]
           ELSE LET amountField == invoices[1][at].k
                    items == [i \in 1..Len(invoices) |->
                                InvoiceItem(invoices[i], amountField)]
                    kept == SelectSeq(items, LAMBDA item : item.amount > 0)
                    sorted == SortByAmount(kept)
                IN  [status |-> 200,
                     top5 |-> SubSeq(sorted, 1, IF Len(sorted) < 5
                                                THEN Len(sorted) ELSE 5),
                     source |-> res.source,
                     totalInvoices |-> Len(invoices),
                     message |-> InvoiceMessage(res.source)]

InvoiceInit ==
  /\ ResolutionIdle
  /\ ApiIdle
  /\ CsvIdle
  /\ BatchIdle
  /\ RouteIdle
  /\ SeoIdle
  /\ invEnv \in InvoiceEnvs
  /\ invResult = NoResult
  /\ invResponse = NoResponse

\* GET /api/invoice-anomalies: loadCSVData returns, the route answers
InvoiceGET ==
  /\ invResponse = NoResponse
  /\ LET res == loadCSVData("invoice-anomalies", "invoices.csv",
                            ArrayOf(MockInvoices(InvoiceMockCount, invEnv.draw)),
                            invEnv)
     IN  /\ invResult' = res
         /\ invResponse' = InvoiceAnswer(res)
  /\ UNCHANGED invEnv
  /\ UNCHANGED <<resolutionVars, apiVars, csvVars, batchVars, routeVars,
                 seoVars>>

InvoiceSpec == InvoiceInit /\ [][InvoiceGET]_vars

\* the route answered with the invoices processed
InvoicesAnswered == invResponse # NoResponse /\ invResponse.status = 200

\* the invoices came from the mock generator
FromMock == invEnv.localAt = 0 /\ invEnv.raw # "ok" /\ invEnv.api # "file"

\* the amounts of a list of items do not grow
NonIncreasing(items) ==
  \A i \in 1..Len(items) : \A j \in i..Len(items) :
    items[i].amount >= items[j].amount

\* the rows of the invoices supplied whose amount is a number above 0
PositiveAmounts ==
  LET invoices == invResult.data.rows
      at == AmountFieldIndex(invoices)
  IN  {i \in 1..Len(invoices) :
         LET parsed == parseFloat(invoices[i][at].v) IN
         parsed.t = "number" /\ parsed.n > 0}

C24_MessageNamesMock ==
  InvoicesAnswered =>
    /\ invResponse.message = "Using mock data - no invoice file found"
         <=> FromMock
    /\ invResponse.message = "Invoice data processed successfully"
         <=> ~FromMock

(***************************************************************************)
(* GET /api/seo-pages (app/api/seo-pages/route.ts). The sitemap is a       *)
(* sequence of tokens: the tags <loc> and </loc>, a line break, and "t"    *)
(* or a URL for any other text.                                            *)
(***************************************************************************)
\* tokens of a generated sitemap file
MaxTokens == 3

\* possiblePaths of the route (lines 6-11)
SeoPaths ==
  <<"/mnt/data/agents-seed-pack-full/day15_SEO_Sentinel/sitemap.xml",
    "/tmp/agents-seed-pack-full/day15_SEO_Sentinel/sitemap.xml",
    "./data/agents-seed-pack-full/day15_SEO_Sentinel/sitemap.xml",
    "/mnt/data/agents-seed-pack-full/day13_SEO_Issue_Sentinel/sitemap.xml">>

SeoTokens == {"<loc>", "</loc>", "\n", "t"}

\* what a sitemap file can hold, the empty text included
SeoContents == UNION {[1..n -> SeoTokens] : n \in 0..MaxTokens}

\* one <url> element of the built-in sitemap, over four lines
MockUrlElement(loc, lastmod) ==
  <<"t", "\n", "t", "<loc>", loc, "</loc>", "\n", "t", lastmod, "t", "\n", "t",
    "\n">>

\* the built-in sitemap (lines 30-52)
MockSitemap ==
  <<"t", "\n", "t", "\n">>
  \o MockUrlElement("https://example.com/", "2024-01-01")
  \o MockUrlElement("https://example.com/about", "2024-01-02")
  \o MockUrlElement("https://example.com/products", "2024-01-03")
  \o MockUrlElement("https://example.com/services", "2024-01-04")
  \o MockUrlElement("https://example.com/contact", "2024-01-05")
  \o <<"t">>

\* variant: the dot of the pattern also matches a line break
RECURSIVE MatchAllAcrossLines(_, _)
MatchAllAcrossLines(xml, p) ==
  LET opens == {i \in p..Len(xml) : xml[i] = "<loc>"
                   /\ \E j \in (i + 1)..Len(xml) : xml[j] = "</loc>"}
  IN  IF opens = {} THEN <<>>
      ELSE LET i == CHOOSE x \in opens : \A y \in opens : x <= y
               closes == {j \in (i + 1)..Len(xml) : xml[j] = "</loc>"}
               j == CHOOSE x \in closes : \A y \in closes : x <= y
           IN  <<SubSeq(xml, i + 1, j - 1)>> \o MatchAllAcrossLines(xml, j + 1)

\* Array.from(xml.matchAll(/<loc>(.*?)<\/loc>/g)).map(m => m[1]) from
\* position p on: a match starts at the first <loc> whose first </loc>
\* comes before any line break, ends at that </loc>, and the search goes
\* on behind it
RECURSIVE MatchAll(_, _)
MatchAll(xml, p) ==
  LET firstClose(i) ==
        LET closes == {j \in (i + 1)..Len(xml) : xml[j] = "</loc>"} IN
        IF closes = {} THEN 0
        ELSE CHOOSE x \in closes : \A y \in closes : x <= y
      opens == {i \in p..Len(xml) :
                  /\ xml[i] = "<loc>"
                  /\ firstClose(i) # 0
                  /\ \A k \in (i + 1)..(firstClose(i) - 1) : xml[k] # "\n"}
  IN  IF opens = {} THEN <<>>
      ELSE LET i == CHOOSE x \in opens : \A y \in opens : x <= y
           IN  <<SubSeq(xml, i + 1, firstClose(i) - 1)>>
               \o MatchAll(xml, firstClose(i) + 1)

\* the loop over possiblePaths from path i on (lines 17-27): the first
\* path that exists and can be read ends it
RECURSIVE SeoFind(_, _)
SeoFind(files, i) ==
  IF i > Len(SeoPaths) THEN [xml |-> <<>>, foundPath |-> ""]
  ELSE IF files.state[i] = "present"
  THEN [xml |-> files.xml, foundPath |-> SeoPaths[i]]
  ELSE SeoFind(files, i + 1)

\* if (!xml) { xml = <built-in sitemap>; foundPath = "mock-data" }
SeoSitemap(found) ==
  IF found.xml = <<>>
  THEN [xml |-> MockSitemap, foundPath |-> "mock-data"]
  ELSE found

\* the answer of the route (lines 57-64)
SeoAnswer(sitemap) ==
  LET urls == MatchAll(sitemap.xml, 1) IN
  [status |-> 200, count |-> Len(urls), urls |-> urls,
   source |-> sitemap.foundPath,
   message |-> IF sitemap.foundPath = "mock-data"
               THEN "Using mock data - no sitemap file found"
               ELSE "Sitemap parsed successfully"]

\* each candidate path is absent, present but unreadable, or holds the
\* sitemap text
SeoFiles ==
  [state : [1..Len(SeoPaths) -> {"absent", "unreadable", "present"}],
   xml : SeoContents]

SeoInit ==
  /\ ResolutionIdle
  /\ ApiIdle
  /\ CsvIdle
  /\ BatchIdle
  /\ RouteIdle
  /\ InvoiceIdle
  /\ seoFs \in SeoFiles
  /\ seoResponse = NoResponse

\* GET /api/seo-pages
SeoGET ==
  /\ seoResponse = NoResponse
  /\ seoResponse' = SeoAnswer(SeoSitemap(SeoFind(seoFs, 1)))
  /\ UNCHANGED seoFs
  /\ UNCHANGED <<resolutionVars, apiVars, csvVars, batchVars, routeVars,
                 invoiceVars>>

SeoSpec == SeoInit /\ [][SeoGET]_vars

\* the text holds a <loc> and, behind it on the same line, a </loc>
HasLocElement(xml) ==
  \E i \in 1..Len(xml) : \E j \in (i + 1)..Len(xml) :
    /\ xml[i] = "<loc>"
    /\ xml[j] = "</loc>"
    /\ \A k \in (i + 1)..(j - 1) : xml[k] # "\n"

\* a candidate path holds a sitemap that can be read
SitemapFound == \E i \in 1..Len(SeoPaths) : seoFs.state[i] = "present"

\* C23 (seo pages): the route always answers with urls being an array and
\* count greater than 0 and equal to the number of urls, whether the
\* sitemap came from a candidate path or from the built-in sitemap.
C23_CountPositive ==
  seoResponse # NoResponse =>
    /\ seoResponse.count = Len(seoResponse.urls)
    /\ seoResponse.count > 0

\* C23 as the code has it: count is the number of urls; from the built-in
\* sitemap, used when no candidate path holds a readable sitemap or the
\* one found is empty, count is 5; from a file count is greater than 0
\* exactly when the file holds a <loc>...</loc> element on one line.
C23_CountMatchesUrls ==
  seoResponse # NoResponse =>
    /\ seoResponse.status = 200
    /\ seoResponse.count = Len(seoResponse.urls)
    /\ IF SitemapFound /\ seoFs.xml # <<>>
       THEN /\ seoResponse.source # "mock-data"
            /\ seoResponse.count > 0 <=> HasLocElement(seoFs.xml)
       ELSE /\ seoResponse.source = "mock-data"
            /\ seoResponse.count = 5
            /\ seoResponse.urls[1] = <<"https://example.com/">>

\* the sitemap of the second candidate path, with one URL
C23_Witness ==
  /\ seoResponse # NoResponse
  /\ seoFs.state[1] = "unreadable"
  /\ seoResponse.source = SeoPaths[2]
  /\ seoResponse.count = 1
  /\ seoResponse.urls = <<<<"t">>>>

====
